---- MODULE Spec2Model ----
(***************************************************************************)
(* Model of the resource upload path of the charm store client             *)
(* (csclient.Client.ResumeUploadResource and the functions it calls).      *)
(*                                                                         *)
(* One behaviour is one upload call.  The caller's arguments (payload      *)
(* size, upload id), the client's multipart threshold and the fault        *)
(* budget of the transport are fixed by Init; the store's answers (the     *)
(* session description, the outcome of each request) are drawn by the      *)
(* actions.  The payload is a fixed byte string of contentLen bytes, so    *)
(* the hash of a byte range is represented by the range itself.            *)
(*                                                                         *)
(* A second specification, SpecArchive, models the archive cache of the    *)
(* repository (CharmStore.archivePath over Client.GetArchive): a sequence  *)
(* of archivePath calls for one charm URL against a cache directory whose  *)
(* target file the environment may change between calls.  SpecConcurrent   *)
(* runs two archivePath calls for one id at once over one cache directory. *)
(* SpecClient models the Client values and the requests their methods hand *)
(* to the transport (Do and the methods built on it, GetResource,          *)
(* WithChannel).  SpecMonitor models the progress monitor of package       *)
(* iomon: the goroutine of run against Update, Kill, Wait and the clock;   *)
(* SpecMonitorLive adds the scheduling of that goroutine.  SpecSessions is *)
(* the upload call against a store that may describe the session with any  *)
(* limits and recorded parts; SpecSessionsLive adds that the part loop is  *)
(* scheduled and its requests are answered.  SpecChannels models the       *)
(* channel a resolution of the repository settles on and sortChannels;     *)
(* SpecRepository models the repositories WithTestMode and WithJujuAttrs   *)
(* make and the client they hold.                                          *)
(***************************************************************************)
EXTENDS Integers, Sequences, FiniteSets

\* ------------------------------------------------------------------ bounds
MaxSize == 4            \* payload sizes 0..MaxSize
MaxRecorded == 3        \* longest parts list a resumed session records
MaxComplete == 2        \* most complete parts in a recorded list
MaxSoftFaults == 11     \* non-API failures the transport may inject in a call
MaxShortReads == 1      \* attempts whose body is not read in one full Read
MaxBody == 1            \* archives of 0..MaxBody bytes
MaxCalls == 2           \* archivePath calls in a behaviour
MaxClients == 2         \* clients: the first one and those WithChannel makes
MaxRevision == 1        \* resource revisions 0..MaxRevision
MaxCurrent == 2         \* Monitor.Update is given 0..MaxCurrent
MaxUpdates == 2         \* calls of Monitor.Update in a behaviour
MaxTicks == 2           \* update intervals that elapse in a behaviour
MaxPublished == 2       \* longest published list the store answers with
MaxRepos == 3           \* CharmStore values in a behaviour
MaxGets == 2            \* archive requests in a behaviour

\* --------------------------------------------------------- program constants
MaxAttempts == 10       \* uploadPart: for i := 0; i < 10; i++

VARIABLES
    pc,                     \* position of the call
    uploadId,               \* argument of ResumeUploadResource
    size,                   \* info.size
    contentLen,             \* number of bytes the io.ReaderAt really holds
    minMultipartUploadSize, \* Client.minMultipartUploadSize
    session,                \* the UploadInfoResponse as the store sent it
    info,                   \* uploadInfo: UploadId, limits, Parts.Parts, preferredPartSize
    parts,                  \* uploadParts: parts.Parts
    partIndex,              \* uploadParts: i
    offset,                 \* uploadParts: offset
    p0, p1,                 \* range of the part being uploaded
    hash,                   \* uploadPart: hash
    try,                    \* uploadPart: i
    pos,                    \* progressReader.pos
    read,                   \* bytes of the current section the reader has delivered
    lastError,              \* uploadPart: lastError
    progress,               \* events delivered to the Progress sink
    requests,               \* requests handed to the transport, with outcome
    ranges,                 \* history: range the loop gave to each index
    result,                 \* what the call returned
    softLeft, shortLeft     \* remaining fault budget of the transport

\* The archive cache (CharmStore.archivePath and Client.GetArchive).
VARIABLES
    apc,                    \* position of the archivePath call
    calls,                  \* archivePath calls started
    files,                  \* CacheDir: the file at the target path and the temp file
    leftover,               \* temp files of returned calls still in CacheDir
    resp,                   \* the response to the archive GET of the call
    got,                    \* what GetArchive returned: r, id, expectHash, expectSize, err
    bodyRead,               \* bytes of resp.Body consumed by io.Copy
    bodyClosed,             \* times resp.Body has been closed
    gets,                   \* archive GET requests the call has sent
    ret,                    \* what archivePath returned
    before,                 \* CacheDir when the call started
    targetWrites,           \* times the call has written or replaced the target
    prev                    \* last successful call while the target is untouched

uploadVars == <<pc, uploadId, size, contentLen, minMultipartUploadSize, session, info,
                parts, partIndex, offset, p0, p1, hash, try, pos, read, lastError,
                progress, requests, ranges, result, softLeft, shortLeft>>

archiveVars == <<apc, calls, files, leftover, resp, got, bodyRead, bodyClosed, gets,
                 ret, before, targetWrites, prev>>

\* Two archivePath calls running at once (SpecConcurrent).
VARIABLES
    call,                   \* each call: its position, r/id/expectHash/expectSize, bytes
                            \* copied, the files it has written to, what it returned
    cacheDir,               \* CacheDir: the target file and each call's temp file
    store                   \* the archive the store holds

concurrentVars == <<call, cacheDir, store>>

\* The clients and the requests they make (SpecClient).
VARIABLES
    clients,                \* the Client values: clients[1] is the one New returned
    made,                   \* history: the channel each client was made with
    sent,                   \* requests the last call handed to bclient.Do
    lastCall                \* the last call of a Client method and what it returned

clientVars == <<clients, made, sent, lastCall>>

\* The progress monitor of package iomon (SpecMonitor).
VARIABLES
    monitor,                \* the Monitor, its goroutine, its tomb and its timer
    observed                \* history: the SetStatus calls, the intervals elapsed,
                            \* the Update calls, the moments of Kill and Wait

monitorVars == <<monitor, observed>>

\* The channel a resolution settles on (SpecChannels).
VARIABLES
    resolution              \* the client's channel, the published info the store
                            \* holds, the last call and what it returned

channelVars == <<resolution>>

\* Repositories sharing clients (SpecRepository).
VARIABLES
    repository              \* the clients, the CharmStore values and the client each
                            \* holds, the archive requests the store received

repoVars == <<repository>>

vars == <<uploadVars, archiveVars, concurrentVars, clientVars, monitorVars, channelVars,
          repoVars>>

\* What the actions of one specification leave alone.
besidesUpload == <<archiveVars, concurrentVars, clientVars, monitorVars,
    channelVars, repoVars>>
besidesArchive == <<uploadVars, concurrentVars, clientVars, monitorVars,
    channelVars, repoVars>>
besidesConcurrent == <<uploadVars, archiveVars, clientVars, monitorVars,
    channelVars, repoVars>>
besidesClient == <<uploadVars, archiveVars, concurrentVars, monitorVars,
    channelVars, repoVars>>
besidesMonitor == <<uploadVars, archiveVars, concurrentVars, clientVars,
    channelVars, repoVars>>
besidesChannels == <<uploadVars, archiveVars, concurrentVars, clientVars,
    monitorVars, repoVars>>
besidesRepo == <<uploadVars, archiveVars, concurrentVars, clientVars,
    monitorVars, channelVars>>

\* ------------------------------------------------------------------ helpers
Min2(a, b) == IF a < b THEN a ELSE b
Max2(a, b) == IF a > b THEN a ELSE b

\* Go's integer division truncates toward zero.
GoDiv(a, b) == IF a >= 0 THEN a \div b ELSE -((-a) \div b)

NoHash == <<>>
NoError == [cause |-> "none", part |-> -1, attempt |-> -1]
NoSession == [UploadId |-> "", MinPartSize |-> 0, MaxPartSize |-> 0,
              MaxParts |-> 0, Parts |-> <<>>]
NoResult ==
    [status |-> "running", msg |-> "", err |-> NoError, revision |-> 0, detail |-> 0]

\* params.Part
IncompletePart == [Hash |-> NoHash, Size |-> 0, Offset |-> 0, Complete |-> FALSE]
CompletePart(o, s) == [Hash |-> <<o, o + s>>, Size |-> s, Offset |-> o, Complete |-> TRUE]

\* params.Part.Valid: the look-ahead treats a part as uploaded when it is
\* recorded complete.
Valid(part) == part.Complete

\* ------------------------------------------------------------ input domains
\* Parts a resumed session may record: not uploaded, or complete at an
\* offset below the largest payload size with one or two bytes.
RecordedParts ==
    {IncompletePart} \cup {CompletePart(o, s) : o \in 0..(MaxSize - 1), s \in {1, 2}}

RecordedLists ==
    UNION {{l \in [1..n -> RecordedParts] :
              Cardinality({k \in 1..n : l[k].Complete}) <= MaxComplete} : n \in 0..MaxRecorded}

\* Limits a session may carry.
Limits ==
    {[MinPartSize |-> 1, MaxPartSize |-> 1, MaxParts |-> 3],
     [MinPartSize |-> 1, MaxPartSize |-> 2, MaxParts |-> 3],
     [MinPartSize |-> 2, MaxPartSize |-> 3, MaxParts |-> 1]}

\* Payload size and multipart threshold of a call: with the threshold at 2
\* every size, with the threshold at 0 the sizes below 2.
Calls ==
    {[size |-> sz, threshold |-> 2] : sz \in 0..MaxSize}
        \cup {[size |-> sz, threshold |-> 0] : sz \in 0..1}

\* Faults the transport may inject: a fresh upload meets either many failed
\* attempts or few failures and short reads, a resumed one a single failure.
FaultBudgets(id) ==
    IF id = ""
      THEN {[soft |-> MaxSoftFaults, short |-> 0], [soft |-> 1, short |-> MaxShortReads]}
      ELSE {[soft |-> 1, short |-> 0]}

Sessions(id, lists) ==
    {[UploadId |-> id, MinPartSize |-> l.MinPartSize, MaxPartSize |-> l.MaxPartSize,
      MaxParts |-> l.MaxParts, Parts |-> ps] : l \in Limits, ps \in lists}

\* Causes of the errors a request can fail with.
APICauses == {"ErrorCode", "DischargeError", "InteractionError"}
SoftCauses == {"Other"}

\* IsAuthorizationError (csclient.go:1213)
IsAuthorizationError(cause) == cause \in {"DischargeError", "InteractionError"}

isAPIError_codesOnly(cause) == cause = "ErrorCode"

\* isAPIError (csclient.go:1226)
isAPIError(cause) ==
    IF cause = "none" THEN FALSE
    ELSE IF cause \in {"ErrorCode", "ErrNotFound"} THEN TRUE
    ELSE IsAuthorizationError(cause)

\* --------------------------------------------------------- progress events
EvStart(id) == [ev |-> "Start", id |-> id, n |-> 0, part |-> -1]
EvTransferred(n, part) == [ev |-> "Transferred", id |-> "", n |-> n, part |-> part]
EvError(part) == [ev |-> "Error", id |-> "", n |-> 0, part |-> part]
EvFinalizing == [ev |-> "Finalizing", id |-> "", n |-> 0, part |-> -1]

\* ---------------------------------------------------------------- requests
Req(kind, part, a, b, h, outcome) ==
    [kind |-> kind, part |-> part, p0 |-> a, p1 |-> b, hash |-> h, outcome |-> outcome]

Fail(msg, err, detail) ==
    [status |-> "error", msg |-> msg, err |-> err, revision |-> 0, detail |-> detail]
Success(rev) ==
    [status |-> "ok", msg |-> "", err |-> NoError, revision |-> rev, detail |-> 0]
\* A runtime panic ends the call without a return value.
Panic(msg) ==
    [status |-> "panic", msg |-> msg, err |-> NoError, revision |-> 0, detail |-> 0]

\* ------------------------------------------------- the archive cache: data
\* Archives are byte strings; a file is absent or holds one.
Bytes == {0, 1}
Contents == UNION {[1..n -> Bytes] : n \in 0..MaxBody}
NoFile == [exists |-> FALSE, data |-> <<>>]
File(c) == [exists |-> TRUE, data |-> c]

\* sha512.New384: the digest of a byte string is represented by the string,
\* so different strings have different digests.
Sum384(c) == c

\* The text of a hash: the empty string, or the hex digits of a digest with
\* their letters in lower or in upper case.
NoHashText == [empty |-> TRUE, digest |-> <<>>, upper |-> FALSE]
UpperHex(d) == [empty |-> FALSE, digest |-> d, upper |-> TRUE]

\* fmt.Sprintf("%x", hash.Sum(nil)) (charmstore.go:171, 201)
Sprintf_x(d) == [empty |-> FALSE, digest |-> d, upper |-> FALSE]

NoResp ==
    [err |-> "unsent", EntityId |-> "", ContentSha384 |-> NoHashText,
     ContentLength |-> 0, Body |-> <<>>, readError |-> FALSE]
NoGot ==
    [r |-> FALSE, eid |-> "", hash |-> NoHashText, size |-> 0, err |-> "",
     cause |-> "none", closed |-> 0]
NoRet == [status |-> "running", path |-> <<>>, err |-> "", cause |-> "none"]
NoPrev == [valid |-> FALSE, path |-> <<>>, eid |-> "", hash |-> NoHashText, size |-> 0]

\* The state of the archive cache while the upload is modelled.
ArchiveIdle ==
    /\ apc = "none"
    /\ calls = 0
    /\ files = [target |-> NoFile, temp |-> NoFile]
    /\ leftover = 0
    /\ resp = NoResp
    /\ got = NoGot
    /\ bodyRead = 0
    /\ bodyClosed = 0
    /\ gets = 0
    /\ ret = NoRet
    /\ before = [target |-> NoFile, leftover |-> 0, prev |-> NoPrev]
    /\ targetWrites = 0
    /\ prev = NoPrev

\* The two concurrent calls.
Procs == {1, 2}
NoCall == [pc |-> "none", got |-> NoGot, read |-> 0, wrote |-> {}, ret |-> NoRet]

\* The state of the concurrent calls while something else is modelled.
ConcurrentIdle ==
    /\ call = [p \in Procs |-> NoCall]
    /\ cacheDir = [target |-> NoFile, temp |-> [p \in Procs |-> NoFile], found |-> NoFile]
    /\ store = <<>>

\* params.NoChannel
NoChannel == ""

NoLastCall ==
    [op |-> "none", client |-> 0, method |-> "", path |-> <<>>, revision |-> 0,
     marshals |-> TRUE, err |-> "", cause |-> "none", Hash |-> "", open |-> FALSE]

\* No client exists while something else is modelled.
ClientIdle ==
    /\ clients = <<>>
    /\ made = <<>>
    /\ sent = <<>>
    /\ lastCall = NoLastCall

\* iomon.Status
Status(current, total) == [Current |-> current, Total |-> total]

\* A Monitor whose goroutine is about to call setStatus for the first time
\* (iomon.New, iomon.go:52-64).
NewMonitor(total) ==
    [pc |-> "setStatus", at |-> "start", Size |-> total, current |-> 0,
     currentStatus |-> Status(0, 0), status |-> Status(0, 0),
     dying |-> FALSE, timer |-> "unset", waited |-> FALSE]

NothingObserved ==
    [delivered |-> <<>>, elapsed |-> 0, updates |-> 0, killed |-> FALSE,
     killCurrent |-> 0, updatesAfterKill |-> 0, setAfterKill |-> {},
     deliveredAtWait |-> 0, updatesAfterWait |-> 0, elapsedAfterWait |-> 0]

\* No monitor runs while something else is modelled.
MonitorIdle ==
    /\ monitor = [NewMonitor(0) EXCEPT !.pc = "none"]
    /\ observed = NothingObserved

\* No resolution is made while something else is modelled.
NoResolution ==
    [pc |-> "none", client |-> NoChannel, published |-> <<>>, op |-> "",
     preferred |-> NoChannel, metaChannel |-> NoChannel, err |-> "",
     channel |-> NoChannel, channels |-> <<>>, before |-> <<>>, sorts |-> 0]

ChannelsIdle == resolution = NoResolution

\* No repository exists while something else is modelled.
NoRepository == [pc |-> "none", clients |-> <<>>, repos |-> <<>>, requests |-> <<>>]

RepoIdle == repository = NoRepository

\* --------------------------------------------------------------------- Init
Init ==
    /\ ArchiveIdle
    /\ ConcurrentIdle
    /\ ClientIdle
    /\ MonitorIdle
    /\ ChannelsIdle
    /\ RepoIdle
    /\ pc = "call"
    /\ uploadId \in {"", "u1"}
    /\ \E c \in Calls :
          /\ size = c.size
          /\ minMultipartUploadSize = c.threshold
    /\ contentLen \in (IF size < minMultipartUploadSize /\ size > 0
                        THEN {size - 1, size} ELSE {size})
    /\ session = NoSession
    /\ info = [UploadId |-> "", MinPartSize |-> 0, MaxPartSize |-> 0, MaxParts |-> 0,
               Parts |-> <<>>, preferredPartSize |-> 0]
    /\ parts = <<>>
    /\ partIndex = 0
    /\ offset = 0
    /\ p0 = 0
    /\ p1 = 0
    /\ hash = NoHash
    /\ try = 0
    /\ pos = 0
    /\ read = 0
    /\ lastError = NoError
    /\ progress = <<>>
    /\ requests = <<>>
    /\ ranges = <<>>
    /\ result = NoResult
    /\ \E f \in FaultBudgets(uploadId) :
          /\ softLeft = f.soft
          /\ shortLeft = f.short

newProgressReader_zero(start) == 0

\* newProgressReader (csclient.go:526-533): the position a reader starts from.
newProgressReader(start) == start

Seek_dropStart(start, off) == off

\* progressReader.Seek (csclient.go:546-551): the total reported after seeking
\* the section to off.
Seek(start, off) == start + off

\* ---------------------------------------------------------- choosePartRange
\* Index of the next part after partIndex that the session holds as uploaded,
\* or -1 (csclient.go:474-483).  Indices are Go's, from 0.
nextUploadedPart(idx, inf) ==
    LET later == {k \in (idx + 1)..(Len(inf.Parts) - 1) : Valid(inf.Parts[k + 1])}
    IN  IF later = {} THEN -1
        ELSE CHOOSE k \in later : \A m \in later : k <= m

\* Offset of that part, or the payload size when there is none.
nextOffset(idx, inf, sz) ==
    IF nextUploadedPart(idx, inf) = -1 THEN sz
    ELSE inf.Parts[nextUploadedPart(idx, inf) + 1].Offset

exactGap_noMaxCheck(off, next, inf) ==
    IF next - off < inf.MinPartSize
      THEN [p0 |-> 0, p1 |-> 0, err |-> "remaining part is too small"]
    ELSE [p0 |-> off, p1 |-> next, err |-> ""]

\* "Exactly one part to fill in" (csclient.go:484-494).
exactGap(off, next, inf) ==
    IF next - off < inf.MinPartSize
      THEN [p0 |-> 0, p1 |-> 0, err |-> "remaining part is too small"]
    ELSE IF next - off > inf.MaxPartSize
      THEN [p0 |-> 0, p1 |-> 0, err |-> "remaining part is too large"]
    ELSE [p0 |-> off, p1 |-> next, err |-> ""]

preferredRange_noAdvance(off, inf, sz) == [p0 |-> off, p1 |-> off, err |-> ""]

preferredRange_noClamp(off, inf, sz) ==
    [p0 |-> off, p1 |-> off + inf.preferredPartSize, err |-> ""]

\* "No next part, so we can choose for ourselves" (csclient.go:495-503).
preferredRange(off, inf, sz) ==
    [p0 |-> off, p1 |-> Min2(off + inf.preferredPartSize, sz), err |-> ""]

dividedRange_roundUp(idx, off, next, nextPart) ==
    [p0 |-> off,
     p1 |-> off + GoDiv(next - off + (nextPart - idx) - 1, nextPart - idx),
     err |-> ""]

\* "Divide it equally" (csclient.go:504-509).
dividedRange(idx, off, next, nextPart) ==
    [p0 |-> off, p1 |-> off + GoDiv(next - off, nextPart - idx), err |-> ""]

recordedRange_trustStore(idx, off, part) ==
    [p0 |-> part.Offset, p1 |-> part.Offset + part.Size, err |-> "errAlreadyUploaded"]

recordedRange_noOffsetCheck(idx, off, part) ==
    [p0 |-> off, p1 |-> off + part.Size, err |-> "errAlreadyUploaded"]

\* The part the session already holds at this index (csclient.go:465-472).
recordedRange(idx, off, part) ==
    IF part.Offset # off
      THEN [p0 |-> 0, p1 |-> 0, err |-> "offset mismatch"]
    ELSE [p0 |-> off, p1 |-> off + part.Size, err |-> "errAlreadyUploaded"]

choosePartRange_ignoreRecorded(idx, off, inf, sz) ==
    IF off >= sz THEN [p0 |-> sz, p1 |-> sz, err |-> "errFinished"]
    ELSE IF nextUploadedPart(idx, inf) = idx + 1
      THEN exactGap(off, nextOffset(idx, inf, sz), inf)
    ELSE IF nextUploadedPart(idx, inf) = -1
      THEN preferredRange(off, inf, sz)
    ELSE dividedRange(idx, off, nextOffset(idx, inf, sz), nextUploadedPart(idx, inf))

\* choosePartRange (csclient.go:461-510)
choosePartRange(idx, off, inf, sz) ==
    IF off >= sz THEN [p0 |-> sz, p1 |-> sz, err |-> "errFinished"]
    ELSE IF idx < Len(inf.Parts) /\ inf.Parts[idx + 1].Complete
      THEN recordedRange(idx, off, inf.Parts[idx + 1])
    ELSE IF nextUploadedPart(idx, inf) = idx + 1
      THEN exactGap(off, nextOffset(idx, inf, sz), inf)
    ELSE IF nextUploadedPart(idx, inf) = -1
      THEN preferredRange(off, inf, sz)
    ELSE dividedRange(idx, off, nextOffset(idx, inf, sz), nextUploadedPart(idx, inf))

roundedPartSize_floor(sz, maxParts) == GoDiv(sz, maxParts)

\* Preferred part size (csclient.go:386-392), before the "too big" test.
roundedPartSize(sz, maxParts) == GoDiv(sz + maxParts - 1, maxParts)

\* ----------------------------------------------------------------- actions
ResumeUploadResource_strict ==
    /\ pc = "call"
    /\ pc' = IF size > minMultipartUploadSize THEN "multipart" ELSE "single"
    /\ UNCHANGED <<uploadId, size, contentLen, minMultipartUploadSize, session, info,
                   parts, partIndex, offset, p0, p1, hash, try, pos, read, lastError,
                   progress, requests, ranges, result, softLeft, shortLeft>>
    /\ UNCHANGED besidesUpload

\* ResumeUploadResource (csclient.go:300-316)
ResumeUploadResource ==
    /\ pc = "call"
    /\ pc' = IF size >= minMultipartUploadSize THEN "multipart" ELSE "single"
    /\ UNCHANGED <<uploadId, size, contentLen, minMultipartUploadSize, session, info,
                   parts, partIndex, offset, p0, p1, hash, try, pos, read, lastError,
                   progress, requests, ranges, result, softLeft, shortLeft>>
    /\ UNCHANGED besidesUpload

\* uploadSinglePartResource up to the POST (csclient.go:318-334)
uploadSinglePartResource ==
    /\ pc = "single"
    /\ progress' = Append(progress, EvStart(""))
    /\ \/ \* readerHashAndSize fails
          /\ pc' = "failed"
          /\ result' = Fail("cannot read resource", NoError, -1)
          /\ UNCHANGED <<p0, p1, hash, pos, read>>
       \/ /\ contentLen # size
          /\ pc' = "failed"
          /\ result' = Fail("resource file changed underfoot", NoError, contentLen)
          /\ UNCHANGED <<p0, p1, hash, pos, read>>
       \/ /\ contentLen = size
          /\ pc' = "posting"
          /\ p0' = 0
          /\ p1' = size
          /\ hash' = <<0, size>>
          /\ pos' = newProgressReader(0)
          /\ read' = 0
          /\ UNCHANGED result
    /\ UNCHANGED <<uploadId, size, contentLen, minMultipartUploadSize, session, info,
                   parts, partIndex, offset, try, lastError, requests, ranges,
                   softLeft, shortLeft>>
    /\ UNCHANGED besidesUpload

postResource_finalizing ==
    /\ pc = "posting"
    /\ \/ /\ read = p1 - p0
          /\ \E rev \in {0, 1} :
                /\ requests' = Append(requests, Req("post", -1, p0, p1, hash, "ok"))
                /\ result' = Success(rev)
                /\ pc' = "done"
          /\ progress' = Append(progress, EvFinalizing)
       \/ \E cause \in APICauses \cup SoftCauses :
             /\ requests' = Append(requests, Req("post", -1, p0, p1, hash, cause))
             /\ result' = Fail("cannot post resource",
                               [cause |-> cause, part |-> -1, attempt |-> 0], 0)
             /\ pc' = "failed"
             /\ UNCHANGED progress
    /\ UNCHANGED <<uploadId, size, contentLen, minMultipartUploadSize, session, info,
                   parts, partIndex, offset, p0, p1, hash, try, pos, read, lastError,
                   ranges, softLeft, shortLeft>>
    /\ UNCHANGED besidesUpload

\* The POST of the single-part path and its outcome (csclient.go:335-346)
postResource ==
    /\ pc = "posting"
    /\ \/ /\ read = p1 - p0
          /\ \E rev \in {0, 1} :
                /\ requests' = Append(requests, Req("post", -1, p0, p1, hash, "ok"))
                /\ result' = Success(rev)
                /\ pc' = "done"
       \/ \E cause \in APICauses \cup SoftCauses :
             /\ requests' = Append(requests, Req("post", -1, p0, p1, hash, cause))
             /\ result' = Fail("cannot post resource",
                               [cause |-> cause, part |-> -1, attempt |-> 0], 0)
             /\ pc' = "failed"
    /\ UNCHANGED <<uploadId, size, contentLen, minMultipartUploadSize, session, info,
                   parts, partIndex, offset, p0, p1, hash, try, pos, read, lastError,
                   progress, ranges, softLeft, shortLeft>>
    /\ UNCHANGED besidesUpload

\* uploadMultipartResource up to the call of uploadParts (csclient.go:362-393).
\* The division of line 386 is Go's: by zero it panics.
startUpload(s) ==
    /\ session' = s
    /\ progress' = Append(progress, EvStart(s.UploadId))
    /\ LET rounded == roundedPartSize(size, s.MaxParts)
       IN  IF s.MaxParts = 0
             THEN /\ pc' = "panicked"
                  /\ result' = Panic("integer divide by zero")
                  /\ info' = [UploadId |-> s.UploadId, MinPartSize |-> s.MinPartSize,
                              MaxPartSize |-> s.MaxPartSize, MaxParts |-> s.MaxParts,
                              Parts |-> s.Parts, preferredPartSize |-> 0]
           ELSE IF rounded > s.MaxPartSize
             THEN /\ pc' = "failed"
                  /\ result' = Fail("resource too big", NoError, s.MaxPartSize * s.MaxParts)
                  /\ info' = [UploadId |-> s.UploadId, MinPartSize |-> s.MinPartSize,
                              MaxPartSize |-> s.MaxPartSize, MaxParts |-> s.MaxParts,
                              Parts |-> s.Parts, preferredPartSize |-> rounded]
             ELSE /\ pc' = "parts"
                  /\ result' = result
                  /\ info' = [UploadId |-> s.UploadId, MinPartSize |-> s.MinPartSize,
                              MaxPartSize |-> s.MaxPartSize, MaxParts |-> s.MaxParts,
                              Parts |-> s.Parts,
                              preferredPartSize |-> Max2(rounded, s.MinPartSize)]
    /\ parts' = s.Parts

trySinglePart_never(cause) == FALSE

\* Whether a failure of POST /upload makes the call try the single part
\* upload: "an earlier version of the API" (csclient.go:366-369).
trySinglePart(cause) == cause = "ErrNotFound"

resumeError_generic(cause) ==
    Fail("", [cause |-> cause, part |-> -1, attempt |-> 0], 0)

\* The error returned when GET /upload/{id} fails (csclient.go:376-381): a
\* not-found answer becomes ErrUploadNotFound, any other error is returned.
resumeError(cause) ==
    IF cause = "ErrNotFound"
      THEN Fail("upload not found",
                [cause |-> "ErrUploadNotFound", part |-> -1, attempt |-> 0], 0)
      ELSE Fail("", [cause |-> cause, part |-> -1, attempt |-> 0], 0)

\* uploadMultipartResource (csclient.go:362-393) against a store that describes
\* a new upload by one of created and the upload to resume by one of resumed.
uploadMultipartResourceFrom(created, resumed) ==
    /\ pc = "multipart"
    /\ IF uploadId = ""
         THEN \/ \* POST /upload answers with a new session
                 /\ \E s \in created : startUpload(s)
                 /\ requests' = Append(requests, Req("create", -1, 0, 0, NoHash, "ok"))
              \/ \E cause \in {"ErrNotFound", "ErrorCode", "Other"} :
                    /\ requests' = Append(requests, Req("create", -1, 0, 0, NoHash, cause))
                    /\ IF trySinglePart(cause)
                         THEN pc' = "single" /\ UNCHANGED result
                         ELSE /\ pc' = "failed"
                              /\ result' = Fail("", [cause |-> cause, part |-> -1,
                                                     attempt |-> 0], 0)
                    /\ UNCHANGED <<session, info, parts, progress>>
         ELSE \/ /\ \E s \in resumed : startUpload(s)
                 /\ requests' = Append(requests, Req("resume", -1, 0, 0, NoHash, "ok"))
              \/ \* the store answers with another upload's description
                 /\ \E s \in Sessions("other", {<<>>}) :
                       /\ session' = s
                       /\ info' = [UploadId |-> s.UploadId, MinPartSize |-> s.MinPartSize,
                                   MaxPartSize |-> s.MaxPartSize, MaxParts |-> s.MaxParts,
                                   Parts |-> s.Parts, preferredPartSize |-> 0]
                 /\ pc' = "failed"
                 /\ requests' = Append(requests, Req("resume", -1, 0, 0, NoHash, "ok"))
                 /\ result' = Fail("unexpected upload id in response", NoError, 0)
                 /\ UNCHANGED <<parts, progress>>
              \/ \E cause \in {"ErrNotFound", "ErrorCode", "Other"} :
                    /\ pc' = "failed"
                    /\ requests' = Append(requests, Req("resume", -1, 0, 0, NoHash, cause))
                    /\ result' = resumeError(cause)
                    /\ UNCHANGED <<session, info, parts, progress>>
    /\ UNCHANGED <<uploadId, size, contentLen, minMultipartUploadSize, partIndex, offset,
                   p0, p1, hash, try, pos, read, lastError, ranges, softLeft, shortLeft>>
    /\ UNCHANGED besidesUpload

uploadMultipartResource ==
    uploadMultipartResourceFrom(Sessions("new", {<<>>}), Sessions(uploadId, RecordedLists))

\* The loop index is followed up to MaxIndex: every recorded part takes one
\* index and every further part at least one byte, so no call gets there.
MaxIndex == MaxRecorded + MaxSize

\* One iteration of the loop of uploadParts up to the first attempt of
\* uploadPart (csclient.go:404-419, 555-562).
uploadParts ==
    /\ pc = "parts"
    /\ partIndex <= MaxIndex
    /\ IF offset < size
         THEN LET r == choosePartRange(partIndex, offset, info, size)
              IN  /\ offset' = r.p1
                  /\ IF r.err = "errAlreadyUploaded"
                       THEN /\ progress' = Append(progress, EvTransferred(r.p1, partIndex))
                            /\ ranges' = Append(ranges, [p0 |-> r.p0, p1 |-> r.p1,
                                                          uploaded |-> FALSE])
                            /\ partIndex' = partIndex + 1
                            /\ pc' = "parts"
                            /\ UNCHANGED <<p0, p1, hash, try, pos, read, lastError, result>>
                     ELSE IF r.err = "errFinished"
                       THEN /\ pc' = "finalizing"
                            /\ UNCHANGED <<progress, ranges, partIndex, p0, p1, hash, try,
                                           pos, read, lastError, result>>
                     ELSE IF r.err # ""
                       THEN /\ pc' = "failed"
                            /\ result' = Fail(r.err, NoError, partIndex)
                            /\ UNCHANGED <<progress, ranges, partIndex, p0, p1, hash, try,
                                           pos, read, lastError>>
                     ELSE \/ \* the payload cannot be read for hashing
                             /\ pc' = "failed"
                             /\ result' = Fail("cannot read resource", NoError, partIndex)
                             /\ UNCHANGED <<progress, ranges, partIndex, p0, p1, hash, try,
                                            pos, read, lastError>>
                          \/ /\ pc' = "sending"
                             /\ p0' = r.p0
                             /\ p1' = r.p1
                             /\ hash' = <<r.p0, r.p1>>
                             /\ try' = 0
                             /\ pos' = newProgressReader(r.p0)
                             /\ read' = 0
                             /\ lastError' = NoError
                             /\ ranges' = Append(ranges, [p0 |-> r.p0, p1 |-> r.p1,
                                                           uploaded |-> TRUE])
                             /\ UNCHANGED <<progress, partIndex, result>>
         ELSE /\ pc' = "finalizing"
              /\ UNCHANGED <<offset, progress, ranges, partIndex, p0, p1, hash, try, pos,
                             read, lastError, result>>
    /\ UNCHANGED <<uploadId, size, contentLen, minMultipartUploadSize, session, info,
                   parts, requests, softLeft, shortLeft>>
    /\ UNCHANGED besidesUpload

\* Number of bytes the section reader of the current request can deliver:
\* io.NewSectionReader(r, p0, p1-p0) over a payload of contentLen bytes.
sectionLen == Max2(0, Min2(p1, contentLen) - p0)

\* progressReader.Read (csclient.go:536-543): the transport reads n more bytes
\* of the request body.
Read ==
    /\ pc \in {"sending", "posting"}
    /\ read < sectionLen
    /\ \E n \in 1..(sectionLen - read) :
          /\ \/ n = sectionLen - read /\ UNCHANGED shortLeft
             \/ n < sectionLen - read /\ shortLeft > 0 /\ shortLeft' = shortLeft - 1
          /\ read' = read + n
          /\ pos' = pos + n
          /\ progress' = Append(progress,
                 EvTransferred(pos + n, IF pc = "sending" THEN partIndex ELSE -1))
    /\ UNCHANGED <<pc, uploadId, size, contentLen, minMultipartUploadSize, session, info,
                   parts, partIndex, offset, p0, p1, hash, try, lastError, requests,
                   ranges, result, softLeft>>
    /\ UNCHANGED besidesUpload

recordPart_alwaysAppend(ps, idx, part) == Append(ps, part)

recordPart_noHash(ps, idx, part) ==
    IF idx < Len(ps) THEN [ps EXCEPT ![idx + 1] = [part EXCEPT !.Hash = NoHash]]
    ELSE Append(ps, [part EXCEPT !.Hash = NoHash])

\* What uploadParts records for an uploaded part (csclient.go:423-434).
recordPart(ps, idx, part) ==
    IF idx < Len(ps) THEN [ps EXCEPT ![idx + 1] = part] ELSE Append(ps, part)

attemptsLeft_oneMore(n) == n < MaxAttempts

\* Whether the loop of uploadPart runs again after attempt n, counted from 0
\* (csclient.go:563).
attemptsLeft(n) == n + 1 < MaxAttempts

\* The error uploadPart returns after the last attempt (csclient.go:586).
tooManyAttempts(last) == Fail("too many attempts; last error", last, 0)

\* One attempt of uploadPart: the answer to the PUT of the part and what
\* the loop does with it (csclient.go:563-586, 420-435).
uploadPart ==
    /\ pc = "sending"
    /\ \/ \* success: the store has read the whole body
          /\ p1 >= p0 => read = p1 - p0
          /\ requests' = Append(requests, Req("part", partIndex, p0, p1, hash, "ok"))
          /\ LET part == [Hash |-> hash, Size |-> 0, Offset |-> 0, Complete |-> TRUE]
             IN  /\ parts' = recordPart(parts, partIndex, part)
                 /\ info' = IF partIndex < Len(info.Parts)
                              THEN [info EXCEPT !.Parts[partIndex + 1] = part]
                              ELSE info
          /\ partIndex' = partIndex + 1
          /\ pc' = "parts"
          /\ UNCHANGED <<try, pos, read, lastError, progress, result, softLeft, shortLeft>>
       \/ \* an error; the transport stops reading the body
          \E cause \in APICauses \cup SoftCauses :
             /\ requests' = Append(requests, Req("part", partIndex, p0, p1, hash, cause))
             /\ LET err == [cause |-> cause, part |-> partIndex, attempt |-> try]
                IN  IF isAPIError(cause)
                      THEN /\ pc' = "failed"
                           /\ result' = Fail("", err, 0)
                           /\ UNCHANGED <<try, pos, read, lastError, progress, softLeft,
                                          shortLeft>>
                      ELSE /\ \/ \* the body is shorter than the declared length
                                 /\ p1 - p0 > sectionLen /\ read = sectionLen
                                 /\ UNCHANGED <<softLeft, shortLeft>>
                              \/ /\ softLeft > 0 /\ read = sectionLen
                                 /\ softLeft' = softLeft - 1
                                 /\ UNCHANGED shortLeft
                              \/ /\ softLeft > 0 /\ read < sectionLen /\ shortLeft > 0
                                 /\ softLeft' = softLeft - 1
                                 /\ shortLeft' = shortLeft - 1
                           /\ progress' = Append(Append(progress, EvError(partIndex)),
                                                 EvTransferred(Seek(p0, 0), partIndex))
                           /\ lastError' = err
                           /\ pos' = Seek(p0, 0)
                           /\ read' = 0
                           /\ try' = try + 1
                           /\ IF attemptsLeft(try)
                                THEN pc' = "sending" /\ UNCHANGED result
                                ELSE /\ pc' = "failed"
                                     /\ result' = tooManyAttempts(err)
             /\ UNCHANGED <<parts, info, partIndex>>
    /\ UNCHANGED <<uploadId, size, contentLen, minMultipartUploadSize, session, offset,
                   p0, p1, hash, ranges>>
    /\ UNCHANGED besidesUpload

Finalizing_silent ==
    /\ pc = "finalizing"
    /\ pc' = "finishing"
    /\ UNCHANGED <<uploadId, size, contentLen, minMultipartUploadSize, session, info,
                   parts, partIndex, offset, p0, p1, hash, try, pos, read, lastError,
                   progress, requests, ranges, result, softLeft, shortLeft>>
    /\ UNCHANGED besidesUpload

\* progress.Finalizing (csclient.go:436)
Finalizing ==
    /\ pc = "finalizing"
    /\ progress' = Append(progress, EvFinalizing)
    /\ pc' = "finishing"
    /\ UNCHANGED <<uploadId, size, contentLen, minMultipartUploadSize, session, info,
                   parts, partIndex, offset, p0, p1, hash, try, pos, read, lastError,
                   requests, ranges, result, softLeft, shortLeft>>
    /\ UNCHANGED besidesUpload

finishUpload_bindAnyway ==
    /\ pc = "finishing"
    /\ \E cause \in {"ok", "ErrorCode", "Other"} :
          requests' = Append(requests, Req("finish", -1, 0, 0, parts, cause))
    /\ pc' = "binding"
    /\ UNCHANGED <<uploadId, size, contentLen, minMultipartUploadSize, session, info,
                   parts, partIndex, offset, p0, p1, hash, try, pos, read, lastError,
                   progress, ranges, result, softLeft, shortLeft>>
    /\ UNCHANGED besidesUpload

\* PUT /upload/{id} with the parts list (csclient.go:438-441)
finishUpload ==
    /\ pc = "finishing"
    /\ \/ /\ requests' = Append(requests, Req("finish", -1, 0, 0, parts, "ok"))
          /\ pc' = "binding"
          /\ UNCHANGED result
       \/ \E cause \in {"ErrorCode", "Other"} :
             /\ requests' = Append(requests, Req("finish", -1, 0, 0, parts, cause))
             /\ pc' = "failed"
             /\ result' = Fail("", [cause |-> cause, part |-> -1, attempt |-> 0], 0)
    /\ UNCHANGED <<uploadId, size, contentLen, minMultipartUploadSize, session, info,
                   parts, partIndex, offset, p0, p1, hash, try, pos, read, lastError,
                   progress, ranges, softLeft, shortLeft>>
    /\ UNCHANGED besidesUpload

\* POST /{id}/resource/{name}?upload-id= (csclient.go:442-450)
bindResource ==
    /\ pc = "binding"
    /\ \/ \E rev \in {0, 1} :
             /\ requests' = Append(requests, Req("bind", -1, 0, 0, NoHash, "ok"))
             /\ pc' = "done"
             /\ result' = Success(rev)
       \/ \E cause \in {"ErrorCode", "Other"} :
             /\ requests' = Append(requests, Req("bind", -1, 0, 0, NoHash, cause))
             /\ pc' = "failed"
             /\ result' = Fail("cannot post resource",
                               [cause |-> cause, part |-> -1, attempt |-> 0], -1)
    /\ UNCHANGED <<uploadId, size, contentLen, minMultipartUploadSize, session, info,
                   parts, partIndex, offset, p0, p1, hash, try, pos, read, lastError,
                   progress, ranges, softLeft, shortLeft>>
    /\ UNCHANGED besidesUpload

Next ==
    \/ ResumeUploadResource
    \/ uploadSinglePartResource
    \/ postResource
    \/ uploadMultipartResource
    \/ uploadParts
    \/ Read
    \/ uploadPart
    \/ Finalizing
    \/ finishUpload
    \/ bindResource

Spec == Init /\ [][Next]_vars

\* ------------------------------------------------------- the archive cache
\* Values of the Entity-Id header: missing, not a URL, a URL without a
\* revision, a fully qualified URL.
EntityIds == {"", "no:such", "django", "cs:utopic/django-42"}

\* charm.ParseURL on a non-empty header value.
ParseURL(text) ==
    [ok |-> text # "no:such",
     Revision |-> IF text = "cs:utopic/django-42" THEN 42 ELSE -1]

\* Values of the Content-Sha384 header.
HashTexts ==
    {NoHashText} \cup {Sprintf_x(Sum384(c)) : c \in Contents}
                 \cup {UpperHex(Sum384(c)) : c \in Contents}

\* Causes Client.Do can fail with.
DoErrors == {"ErrNotFound", "TermAgreementRequired", "Other"}

HeadersAccepted(rsp) ==
    /\ rsp.EntityId = "cs:utopic/django-42"
    /\ ~rsp.ContentSha384.empty
    /\ rsp.ContentLength >= 0

\* What the transport can answer to the archive GET: a failure, or a
\* response with any headers; a body is only drawn when the headers let
\* GetArchive hand it out.
Responses ==
    {[NoResp EXCEPT !.err = e] : e \in DoErrors}
        \cup {rsp \in [err : {"none"}, EntityId : EntityIds, ContentSha384 : HashTexts,
                        ContentLength : -1..MaxBody, Body : Contents,
                        readError : BOOLEAN] :
                  HeadersAccepted(rsp) \/ (rsp.Body = <<>> /\ ~rsp.readError)}

\* fail (csclient.go:143-145), with the cause of the error and the number
\* of times the body was closed before returning.
fail(err, cause, closed) ==
    [r |-> FALSE, eid |-> "", hash |-> NoHashText, size |-> 0, err |-> err,
     cause |-> cause, closed |-> closed]

GetArchive_noLengthCheck(rsp) ==
    IF rsp.err # "none"
      THEN IF rsp.err = "TermAgreementRequired"
             THEN fail("cannot get archive because some terms have not been agreed to",
                       "none", 0)
             ELSE fail("cannot get archive",
                       IF isAPIError(rsp.err) THEN rsp.err ELSE "none", 0)
    ELSE IF rsp.EntityId = ""
      THEN fail("no Entity-Id header found in response", "none", 1)
    ELSE IF ~ParseURL(rsp.EntityId).ok
      THEN fail("invalid entity id found in response", "none", 1)
    ELSE IF ParseURL(rsp.EntityId).Revision = -1
      THEN fail("archive get returned not fully qualified entity id", "none", 1)
    ELSE IF rsp.ContentSha384.empty
      THEN fail("no Content-Sha384 header found in response", "none", 1)
    ELSE [r |-> TRUE, eid |-> rsp.EntityId, hash |-> rsp.ContentSha384,
          size |-> rsp.ContentLength, err |-> "", cause |-> "none", closed |-> 0]

\* Client.GetArchive (csclient.go:142-201) on the answer rsp of Client.Do.
GetArchive(rsp) ==
    IF rsp.err # "none"
      THEN IF rsp.err = "TermAgreementRequired"
             THEN fail("cannot get archive because some terms have not been agreed to",
                       "none", 0)
             ELSE fail("cannot get archive",
                       IF isAPIError(rsp.err) THEN rsp.err ELSE "none", 0)
    ELSE IF rsp.EntityId = ""
      THEN fail("no Entity-Id header found in response", "none", 1)
    ELSE IF ~ParseURL(rsp.EntityId).ok
      THEN fail("invalid entity id found in response", "none", 1)
    ELSE IF ParseURL(rsp.EntityId).Revision = -1
      THEN fail("archive get returned not fully qualified entity id", "none", 1)
    ELSE IF rsp.ContentSha384.empty
      THEN fail("no Content-Sha384 header found in response", "none", 1)
    ELSE IF rsp.ContentLength < 0
      THEN fail("no content length found in response", "none", 1)
    ELSE [r |-> TRUE, eid |-> rsp.EntityId, hash |-> rsp.ContentSha384,
          size |-> rsp.ContentLength, err |-> "", cause |-> "none", closed |-> 0]

verifyHash384AndSize_alwaysStale(file, expectHash, expectSize) == "hash mismatch"

verifyHash384AndSize_sizeOnly(file, expectHash, expectSize) ==
    IF ~file.exists THEN "open"
    ELSE IF Len(file.data) # expectSize THEN "size mismatch"
    ELSE ""

\* verifyHash384AndSize (charmstore.go:186-206): the error, "" for nil.
verifyHash384AndSize(file, expectHash, expectSize) ==
    IF ~file.exists THEN "open"
    ELSE IF Len(file.data) # expectSize THEN "size mismatch"
    ELSE IF Sprintf_x(Sum384(file.data)) # expectHash THEN "hash mismatch"
    ELSE ""

\* filepath.Join(CacheDir, charm.Quote(id.String())+"."+etype)
\* (charmstore.go:152)
archiveName(eid, etype) == <<eid, etype>>

\* The error archivePath makes of a GetArchive error (charmstore.go:142-148).
retrieveError(g) ==
    IF g.cause = "ErrNotFound"
      THEN [status |-> "error", path |-> <<>>, err |-> "cannot retrieve: charm not found",
            cause |-> "ErrNotFound"]
      ELSE [status |-> "error", path |-> <<>>, err |-> "cannot retrieve charm",
            cause |-> g.cause]

ArchiveError(msg) == [status |-> "error", path |-> <<>>, err |-> msg, cause |-> "none"]
ArchiveOK(path) == [status |-> "ok", path |-> path, err |-> "", cause |-> "none"]

\* The upload is not running while the archive cache is modelled.
UploadIdle ==
    /\ pc = "none"
    /\ uploadId = ""
    /\ size = 0
    /\ contentLen = 0
    /\ minMultipartUploadSize = 0
    /\ session = NoSession
    /\ info = [UploadId |-> "", MinPartSize |-> 0, MaxPartSize |-> 0, MaxParts |-> 0,
               Parts |-> <<>>, preferredPartSize |-> 0]
    /\ parts = <<>>
    /\ partIndex = 0
    /\ offset = 0
    /\ p0 = 0
    /\ p1 = 0
    /\ hash = NoHash
    /\ try = 0
    /\ pos = 0
    /\ read = 0
    /\ lastError = NoError
    /\ progress = <<>>
    /\ requests = <<>>
    /\ ranges = <<>>
    /\ result = NoResult
    /\ softLeft = 0
    /\ shortLeft = 0

\* The cache directory may hold any file at the target path.
InitArchive ==
    /\ UploadIdle
    /\ ConcurrentIdle
    /\ ClientIdle
    /\ MonitorIdle
    /\ ChannelsIdle
    /\ RepoIdle
    /\ apc = "idle"
    /\ calls = 0
    /\ \E t \in {NoFile} \cup {File(c) : c \in Contents} :
          files = [target |-> t, temp |-> NoFile]
    /\ leftover = 0
    /\ resp = NoResp
    /\ got = NoGot
    /\ bodyRead = 0
    /\ bodyClosed = 0
    /\ gets = 0
    /\ ret = NoRet
    /\ before = [target |-> files.target, leftover |-> 0, prev |-> NoPrev]
    /\ targetWrites = 0
    /\ prev = NoPrev

return_bodyOpen(r, target, tempLeft) ==
    /\ apc' = "returned"
    /\ ret' = r
    /\ bodyClosed' = bodyClosed
    /\ files' = [target |-> target, temp |-> NoFile]
    /\ leftover' = IF tempLeft THEN leftover + 1 ELSE leftover
    /\ prev' = IF r.status = "ok"
                 THEN [valid |-> TRUE, path |-> r.path, eid |-> got.eid,
                       hash |-> got.hash, size |-> got.size]
                 ELSE prev

\* The deferred r.Close() and the return of archivePath (charmstore.go:149).
\* A temp file the call leaves behind stays in CacheDir: it is counted in
\* leftover and its content is no longer followed.
return(r, target, tempLeft) ==
    /\ apc' = "returned"
    /\ ret' = r
    /\ bodyClosed' = bodyClosed + 1
    /\ files' = [target |-> target, temp |-> NoFile]
    /\ leftover' = IF tempLeft THEN leftover + 1 ELSE leftover
    /\ prev' = IF r.status = "ok"
                 THEN [valid |-> TRUE, path |-> r.path, eid |-> got.eid,
                       hash |-> got.hash, size |-> got.size]
                 ELSE prev

\* archivePath up to the call of GetArchive (charmstore.go:132-140)
archivePath ==
    /\ apc \in {"idle", "returned"}
    /\ calls < MaxCalls
    /\ calls' = calls + 1
    /\ before' = [target |-> files.target, leftover |-> leftover, prev |-> prev]
    /\ resp' = NoResp
    /\ got' = NoGot
    /\ bodyRead' = 0
    /\ bodyClosed' = 0
    /\ gets' = 0
    /\ targetWrites' = 0
    /\ \/ /\ apc' = "getting"
          /\ ret' = NoRet
       \/ \* os.MkdirAll fails
          /\ apc' = "returned"
          /\ ret' = ArchiveError("cannot create the cache directory")
    /\ UNCHANGED <<files, leftover, prev>>
    /\ UNCHANGED besidesArchive

callGetArchive_retry ==
    /\ apc = "getting"
    /\ \E rsp \in Responses :
          /\ resp' = rsp
          /\ got' = GetArchive(rsp)
          /\ gets' = gets + 1
          /\ bodyClosed' = GetArchive(rsp).closed
          /\ IF GetArchive(rsp).err # ""
               THEN IF rsp.err = "none" /\ gets = 0
                      THEN apc' = "getting" /\ UNCHANGED ret
                      ELSE apc' = "returned" /\ ret' = retrieveError(GetArchive(rsp))
               ELSE apc' = "cached" /\ UNCHANGED ret
    /\ UNCHANGED <<calls, files, leftover, bodyRead, before, targetWrites, prev>>
    /\ UNCHANGED besidesArchive

\* s.client.GetArchive(curl) and the handling of its error
\* (charmstore.go:141-148)
callGetArchive ==
    /\ apc = "getting"
    /\ \E rsp \in Responses :
          /\ resp' = rsp
          /\ got' = GetArchive(rsp)
          /\ gets' = gets + 1
          /\ bodyClosed' = GetArchive(rsp).closed
          /\ IF GetArchive(rsp).err # ""
               THEN apc' = "returned" /\ ret' = retrieveError(GetArchive(rsp))
               ELSE apc' = "cached" /\ UNCHANGED ret
    /\ UNCHANGED <<calls, files, leftover, bodyRead, before, targetWrites, prev>>
    /\ UNCHANGED besidesArchive

\* "Check if the archive already exists in the cache" (charmstore.go:151-155)
checkCache ==
    /\ apc = "cached"
    /\ IF verifyHash384AndSize(files.target, got.hash, got.size) = ""
         THEN return(ArchiveOK(archiveName(got.eid, "charm")), files.target, FALSE)
         ELSE /\ apc' = "temp"
              /\ UNCHANGED <<ret, bodyClosed, files, leftover, prev>>
    /\ UNCHANGED <<calls, resp, got, bodyRead, gets, before, targetWrites>>
    /\ UNCHANGED besidesArchive

\* ioutil.TempFile(CacheDir, "charm-download") (charmstore.go:158-162)
TempFile ==
    /\ apc = "temp"
    /\ \/ /\ apc' = "copying"
          /\ files' = [files EXCEPT !.temp = File(<<>>)]
          /\ UNCHANGED <<ret, bodyClosed, leftover, prev>>
       \/ return(ArchiveError("cannot make temporary file"), files.target, FALSE)
    /\ UNCHANGED <<calls, resp, got, bodyRead, gets, before, targetWrites>>
    /\ UNCHANGED besidesArchive

\* io.Copy(io.MultiWriter(hash, f), r) (charmstore.go:163-167): one chunk of
\* the body goes to the hash and the temp file, or the copy ends.
Copy ==
    /\ apc = "copying"
    /\ \/ /\ bodyRead < Len(resp.Body)
          /\ \E n \in 1..(Len(resp.Body) - bodyRead) :
                /\ bodyRead' = bodyRead + n
                /\ files' = [files EXCEPT !.temp.data =
                                 @ \o SubSeq(resp.Body, bodyRead + 1, bodyRead + n)]
          /\ UNCHANGED <<apc, ret, bodyClosed, leftover, prev>>
       \/ \* the chunk cannot be written
          /\ bodyRead < Len(resp.Body)
          /\ return(ArchiveError("cannot read entity archive"), files.target, TRUE)
          /\ UNCHANGED bodyRead
       \/ \* the body ends with an error
          /\ bodyRead = Len(resp.Body)
          /\ resp.readError
          /\ return(ArchiveError("cannot read entity archive"), files.target, TRUE)
          /\ UNCHANGED bodyRead
       \/ /\ bodyRead = Len(resp.Body)
          /\ ~resp.readError
          /\ apc' = "checking"
          /\ UNCHANGED <<bodyRead, ret, bodyClosed, files, leftover, prev>>
    /\ UNCHANGED <<calls, resp, got, gets, before, targetWrites>>
    /\ UNCHANGED besidesArchive

checkDownload_sizeOnly ==
    /\ apc = "checking"
    /\ IF Len(files.temp.data) # got.size
         THEN return(ArchiveError("size mismatch; network corruption?"), files.target, TRUE)
       ELSE /\ apc' = "replacing"
            /\ UNCHANGED <<ret, bodyClosed, files, leftover, prev>>
    /\ UNCHANGED <<calls, resp, got, bodyRead, gets, before, targetWrites>>
    /\ UNCHANGED besidesArchive

\* The size and hash of what was copied against what the store declared
\* (charmstore.go:168-173)
checkDownload ==
    /\ apc = "checking"
    /\ IF Len(files.temp.data) # got.size
         THEN return(ArchiveError("size mismatch; network corruption?"), files.target, TRUE)
       ELSE IF Sprintf_x(Sum384(files.temp.data)) # got.hash
         THEN return(ArchiveError("hash mismatch; network corruption?"), files.target, TRUE)
       ELSE /\ apc' = "replacing"
            /\ UNCHANGED <<ret, bodyClosed, files, leftover, prev>>
    /\ UNCHANGED <<calls, resp, got, bodyRead, gets, before, targetWrites>>
    /\ UNCHANGED besidesArchive

\* utils.ReplaceFile(f.Name(), path) (charmstore.go:179-183): the rename
\* puts the temp file at the target path or leaves both files as they are.
ReplaceFile ==
    /\ apc = "replacing"
    /\ \/ /\ return(ArchiveOK(archiveName(got.eid, "charm")), files.temp, FALSE)
          /\ targetWrites' = targetWrites + 1
       \/ /\ return(ArchiveError("cannot move the entity archive"), files.target, TRUE)
          /\ UNCHANGED targetWrites
    /\ UNCHANGED <<calls, resp, got, bodyRead, gets, before>>
    /\ UNCHANGED besidesArchive

\* Between two calls something else truncates, rewrites or removes the file
\* at the target path; what the last call returned is no longer followed.
changeCache ==
    /\ apc \in {"idle", "returned"}
    /\ \E t \in {NoFile} \cup {File(c) : c \in Contents} :
          /\ t # files.target
          /\ files' = [files EXCEPT !.target = t]
          /\ before' = [target |-> t, leftover |-> leftover, prev |-> NoPrev]
    /\ apc' = "idle"
    /\ prev' = NoPrev
    /\ resp' = NoResp
    /\ got' = NoGot
    /\ bodyRead' = 0
    /\ bodyClosed' = 0
    /\ gets' = 0
    /\ ret' = NoRet
    /\ targetWrites' = 0
    /\ UNCHANGED <<calls, leftover>>
    /\ UNCHANGED besidesArchive

NextArchive ==
    \/ archivePath
    \/ callGetArchive
    \/ checkCache
    \/ TempFile
    \/ Copy
    \/ checkDownload
    \/ ReplaceFile
    \/ changeCache

SpecArchive == InitArchive /\ [][NextArchive]_vars

\* ------------------------------------------- two archivePath calls at once
\* Both calls ask for the same id and the store holds one archive all along.
\* The transport delivers the store's answer or fails the request.
StoreResponse ==
    [err |-> "none", EntityId |-> "cs:utopic/django-42",
     ContentSha384 |-> Sprintf_x(Sum384(store)), ContentLength |-> Len(store),
     Body |-> store, readError |-> FALSE]

tempName_shared(p) == 1

\* ioutil.TempFile(CacheDir, "charm-download") (charmstore.go:158) gives every
\* call a name no other file has.
tempName(p) == p

InitConcurrent ==
    /\ UploadIdle
    /\ ArchiveIdle
    /\ ClientIdle
    /\ MonitorIdle
    /\ ChannelsIdle
    /\ RepoIdle
    /\ store \in Contents
    /\ call = [p \in Procs |-> [NoCall EXCEPT !.pc = "start"]]
    /\ \E t \in {NoFile} \cup {File(c) : c \in Contents} :
          cacheDir = [target |-> t, temp |-> [p \in Procs |-> NoFile], found |-> t]

\* The return of call p with r.
returns(p, r) == call' = [call EXCEPT ![p].pc = "returned", ![p].ret = r]

\* os.MkdirAll (charmstore.go:134-136)
startCall(p) ==
    /\ call[p].pc = "start"
    /\ \/ call' = [call EXCEPT ![p].pc = "getting"]
       \/ returns(p, ArchiveError("cannot create the cache directory"))
    /\ UNCHANGED <<cacheDir, store>>
    /\ UNCHANGED besidesConcurrent

\* s.client.GetArchive(curl) (charmstore.go:141-148)
getArchiveOf(p) ==
    /\ call[p].pc = "getting"
    /\ \E rsp \in {StoreResponse} \cup {[NoResp EXCEPT !.err = e] : e \in DoErrors} :
          IF GetArchive(rsp).err # ""
            THEN returns(p, retrieveError(GetArchive(rsp)))
            ELSE call' = [call EXCEPT ![p].pc = "cached", ![p].got = GetArchive(rsp)]
    /\ UNCHANGED <<cacheDir, store>>
    /\ UNCHANGED besidesConcurrent

\* The look at the cache (charmstore.go:151-155)
checkCacheOf(p) ==
    /\ call[p].pc = "cached"
    /\ IF verifyHash384AndSize(cacheDir.target, call[p].got.hash, call[p].got.size) = ""
         THEN returns(p, ArchiveOK(archiveName(call[p].got.eid, "charm")))
         ELSE call' = [call EXCEPT ![p].pc = "temp"]
    /\ UNCHANGED <<cacheDir, store>>
    /\ UNCHANGED besidesConcurrent

\* ioutil.TempFile (charmstore.go:158-162)
tempFileOf(p) ==
    /\ call[p].pc = "temp"
    /\ \/ /\ call' = [call EXCEPT ![p].pc = "copying"]
          /\ cacheDir' = [cacheDir EXCEPT !.temp[tempName(p)] = File(<<>>)]
       \/ /\ returns(p, ArchiveError("cannot make temporary file"))
          /\ UNCHANGED cacheDir
    /\ UNCHANGED store
    /\ UNCHANGED besidesConcurrent

\* io.Copy (charmstore.go:163-167), a chunk of the body at a time
copyOf(p) ==
    /\ call[p].pc = "copying"
    /\ \/ /\ call[p].read < Len(store)
          /\ \E n \in 1..(Len(store) - call[p].read) :
                /\ call' = [call EXCEPT ![p].read = @ + n,
                                        ![p].wrote = @ \cup {tempName(p)}]
                /\ cacheDir' = [cacheDir EXCEPT !.temp[tempName(p)].data =
                                    @ \o SubSeq(store, call[p].read + 1, call[p].read + n)]
       \/ \* the chunk cannot be written
          /\ call[p].read < Len(store)
          /\ returns(p, ArchiveError("cannot read entity archive"))
          /\ UNCHANGED cacheDir
       \/ /\ call[p].read = Len(store)
          /\ call' = [call EXCEPT ![p].pc = "checking"]
          /\ UNCHANGED cacheDir
    /\ UNCHANGED store
    /\ UNCHANGED besidesConcurrent

\* The size and hash checks of the copy (charmstore.go:168-173)
checkDownloadOf(p) ==
    /\ call[p].pc = "checking"
    /\ IF Len(cacheDir.temp[tempName(p)].data) # call[p].got.size
         THEN returns(p, ArchiveError("size mismatch; network corruption?"))
       ELSE IF Sprintf_x(Sum384(cacheDir.temp[tempName(p)].data)) # call[p].got.hash
         THEN returns(p, ArchiveError("hash mismatch; network corruption?"))
       ELSE call' = [call EXCEPT ![p].pc = "replacing"]
    /\ UNCHANGED <<cacheDir, store>>
    /\ UNCHANGED besidesConcurrent

\* utils.ReplaceFile (charmstore.go:179-183): one atomic rename, or nothing
replaceFileOf(p) ==
    /\ call[p].pc = "replacing"
    /\ \/ /\ returns(p, ArchiveOK(archiveName(call[p].got.eid, "charm")))
          /\ cacheDir' = [cacheDir EXCEPT !.target = cacheDir.temp[tempName(p)],
                                          !.temp[tempName(p)] = NoFile]
       \/ /\ returns(p, ArchiveError("cannot move the entity archive"))
          /\ UNCHANGED cacheDir
    /\ UNCHANGED store
    /\ UNCHANGED besidesConcurrent

NextConcurrent ==
    \E p \in Procs :
        \/ startCall(p)
        \/ getArchiveOf(p)
        \/ checkCacheOf(p)
        \/ tempFileOf(p)
        \/ copyOf(p)
        \/ checkDownloadOf(p)
        \/ replaceFileOf(p)

SpecConcurrent == InitConcurrent /\ [][NextConcurrent]_vars

\* ------------------------------------------------ the client and its requests
\* A path is the sequence of its pieces: "/" and the names between.
AbsolutePaths == {<<"/", "wordpress", "/", "meta">>, <<"/", "wordpress", "/", "%zz">>}
RelativePaths == {<<>>, <<"wordpress">>}
Paths == AbsolutePaths \cup RelativePaths

\* strings.HasPrefix(path, "/")
HasPrefix(path, prefix) == Len(path) > 0 /\ path[1] = prefix

\* url.Parse fails on an invalid escape.
ParseFails(path) == \E k \in 1..Len(path) : path[k] = "%zz"

\* strconv.Itoa for the revisions of the model
Itoa(n) == <<"0", "1", "2", "3", "4", "5", "6", "7", "8", "9">>[n + 1]

Channels == {NoChannel, "edge"}

\* What bclient.Do can answer: an error, a response with status 200, or a
\* response with another status and an error body.
NoAnswer ==
    [err |-> "unsent", StatusCode |-> 0, ContentType |-> "", jsonOK |-> FALSE,
     Message |-> "", readError |-> FALSE, ContentSha384 |-> ""]
Answers ==
    {[NoAnswer EXCEPT !.err = e] : e \in {"Other", "DischargeError"}}
      \cup {[NoAnswer EXCEPT !.err = "none", !.StatusCode = 200,
                             !.ContentType = "application/json", !.jsonOK = TRUE,
                             !.ContentSha384 = "abc"],
            [NoAnswer EXCEPT !.err = "none", !.StatusCode = 200]}
      \cup {[NoAnswer EXCEPT !.err = "none", !.StatusCode = 404, !.readError = TRUE],
            [NoAnswer EXCEPT !.err = "none", !.StatusCode = 500, !.ContentType = "text/plain"],
            [NoAnswer EXCEPT !.err = "none", !.StatusCode = 500,
                             !.ContentType = "application/json"],
            [NoAnswer EXCEPT !.err = "none", !.StatusCode = 500,
                             !.ContentType = "application/json", !.jsonOK = TRUE],
            [NoAnswer EXCEPT !.err = "none", !.StatusCode = 404,
                             !.ContentType = "application/json", !.jsonOK = TRUE,
                             !.Message = "not found"]}

\* What a method returns: the requests it sent, its error and the cause of
\* the error, and for a nil error the response.
Returns(reqs, err, cause, ans) == [sent |-> reqs, err |-> err, cause |-> cause, resp |-> ans]

\* The request Do hands to the transport (csclient.go:1032-1054).
Request(c, i, method, path) ==
    [client |-> i, method |-> method, path |-> path,
     auth |-> c.User # "",
     query |-> IF c.channel # NoChannel THEN {<<"channel", c.channel>>} ELSE {}]

\* The part of Do after the request is sent (csclient.go:1056-1078).
response(reqs, ans) ==
    IF ans.err # "none"
      THEN Returns(reqs, "transport error", IF isAPIError(ans.err) THEN ans.err ELSE "none",
                   NoAnswer)
    ELSE IF ans.StatusCode = 200 THEN Returns(reqs, "", "none", ans)
    ELSE IF ans.readError THEN Returns(reqs, "cannot read response body", "none", NoAnswer)
    ELSE IF ans.ContentType # "application/json"
      THEN Returns(reqs, "unexpected response status from server", "none", NoAnswer)
    ELSE IF ~ans.jsonOK THEN Returns(reqs, "cannot unmarshal error response", "none", NoAnswer)
    ELSE IF ans.Message = ""
      THEN Returns(reqs, "error response with empty message", "none", NoAnswer)
    ELSE Returns(reqs, ans.Message, "ErrorCode", NoAnswer)

Do_noPathCheck(c, i, method, path, ans) ==
    IF ParseFails(path) THEN Returns(<<>>, "parse: invalid URL escape", "none", NoAnswer)
    ELSE response(<<Request(c, i, method, path)>>, ans)

\* Client.Do (csclient.go:1030-1078) by client i, whose value is c, with the
\* answer ans of the transport.
Do(c, i, method, path, ans) ==
    IF ~HasPrefix(path, "/") THEN Returns(<<>>, "path is not absolute", "none", NoAnswer)
    ELSE IF ParseFails(path) THEN Returns(<<>>, "parse: invalid URL escape", "none", NoAnswer)
    ELSE response(<<Request(c, i, method, path)>>, ans)

\* Client.Get (csclient.go:958-973)
Get(c, i, path, ans) ==
    LET d == Do(c, i, "GET", path, ans) IN
    IF d.err # "" THEN d
    ELSE IF ~d.resp.jsonOK THEN Returns(d.sent, "cannot unmarshal response", "none", NoAnswer)
    ELSE d

\* Client.DoWithResponse (csclient.go:995-1012); marshals tells whether
\* json.Marshal accepts the value.
DoWithResponse(c, i, method, path, marshals, ans) ==
    IF ~marshals THEN Returns(<<>>, "cannot marshal PUT body", "none", NoAnswer)
    ELSE LET d == Do(c, i, method, path, ans) IN
         IF d.err # "" THEN d
         ELSE IF ~d.resp.jsonOK THEN Returns(d.sent, "cannot unmarshal", "none", NoAnswer)
         ELSE d

\* Client.PutWithResponse (csclient.go:988-990) and Client.Put (978-980)
PutWithResponse(c, i, path, marshals, ans) == DoWithResponse(c, i, "PUT", path, marshals, ans)
Put(c, i, path, marshals, ans) == PutWithResponse(c, i, path, marshals, ans)

\* Client.GetResource (csclient.go:617-651); id is id.Path().
GetResource(c, i, id, name, revision, ans) ==
    IF revision < 0
      THEN Returns(<<>>, "revision must be a non-negative integer", "none", NoAnswer)
    ELSE LET url == <<"/", id, "/", "resource", "/", name>>
                       \o (IF revision >= 0 THEN <<"/", Itoa(revision)>> ELSE <<>>)
             d == Do(c, i, "GET", url, ans)
         IN  IF d.err # "" THEN Returns(d.sent, "cannot get resource", d.cause, NoAnswer)
             ELSE IF d.resp.ContentSha384 = ""
               THEN Returns(d.sent, "no Content-Sha384 header found in response", "none",
                            NoAnswer)
             ELSE d

WithChannel_inPlace(cs, i, channel) ==
    Append([cs EXCEPT ![i].channel = channel], [cs[i] EXCEPT !.channel = channel])

\* Client.WithChannel (csclient.go:122-126): a copy of client i with the
\* channel set, as a new client.
WithChannel(cs, i, channel) == Append(cs, [cs[i] EXCEPT !.channel = channel])

\* csclient.New (csclient.go:87-100): the channel of a new client is the
\* zero value.
InitClient ==
    /\ UploadIdle
    /\ ArchiveIdle
    /\ ConcurrentIdle
    /\ MonitorIdle
    /\ ChannelsIdle
    /\ RepoIdle
    /\ \E u \in {"", "who"} : clients = <<[channel |-> NoChannel, User |-> u]>>
    /\ made = <<NoChannel>>
    /\ sent = <<>>
    /\ lastCall = NoLastCall

\* The transport answers only a request it is handed: a call whose value
\* does not marshal or whose path Do turns down draws no answer.
AnswersTo(path, marshals) ==
    IF marshals /\ path \in AbsolutePaths /\ ~ParseFails(path) THEN Answers ELSE {NoAnswer}

\* The record of a call and the requests it sent.
called(op, i, method, path, revision, marshals, r) ==
    /\ sent' = r.sent
    /\ lastCall' = [op |-> op, client |-> i, method |-> method, path |-> path,
                    revision |-> revision, marshals |-> marshals,
                    err |-> r.err, cause |-> r.cause,
                    Hash |-> r.resp.ContentSha384,
                    open |-> r.err = "" /\ op \in {"Do", "GetResource"}]

callWithChannel ==
    /\ Len(clients) < MaxClients
    /\ \E i \in 1..Len(clients), channel \in Channels :
          /\ clients' = WithChannel(clients, i, channel)
          /\ made' = Append(made, channel)
          /\ lastCall' = [NoLastCall EXCEPT !.op = "WithChannel", !.client = i]
    /\ sent' = <<>>
    /\ UNCHANGED besidesClient

callDo ==
    /\ \E i \in 1..Len(clients), path \in Paths :
          \E ans \in AnswersTo(path, TRUE) :
              called("Do", i, "GET", path, 0, TRUE, Do(clients[i], i, "GET", path, ans))
    /\ UNCHANGED <<clients, made>>
    /\ UNCHANGED besidesClient

callGet ==
    /\ \E i \in 1..Len(clients), path \in Paths :
          \E ans \in AnswersTo(path, TRUE) :
              called("Get", i, "GET", path, 0, TRUE, Get(clients[i], i, path, ans))
    /\ UNCHANGED <<clients, made>>
    /\ UNCHANGED besidesClient

callPut ==
    /\ \E i \in 1..Len(clients), path \in Paths, marshals \in BOOLEAN :
          \E ans \in AnswersTo(path, marshals) :
              \/ called("Put", i, "PUT", path, 0, marshals,
                        Put(clients[i], i, path, marshals, ans))
              \/ called("PutWithResponse", i, "PUT", path, 0, marshals,
                        PutWithResponse(clients[i], i, path, marshals, ans))
    /\ UNCHANGED <<clients, made>>
    /\ UNCHANGED besidesClient

callDoWithResponse ==
    /\ \E i \in 1..Len(clients), method \in {"PUT", "POST"}, path \in Paths,
          marshals \in BOOLEAN :
          \E ans \in AnswersTo(path, marshals) :
              called("DoWithResponse", i, method, path, 0, marshals,
                     DoWithResponse(clients[i], i, method, path, marshals, ans))
    /\ UNCHANGED <<clients, made>>
    /\ UNCHANGED besidesClient

callGetResource ==
    /\ \E i \in 1..Len(clients), revision \in -1..MaxRevision :
          \E ans \in (IF revision < 0 THEN {NoAnswer} ELSE Answers) :
              called("GetResource", i, "GET", <<>>, revision, TRUE,
                     GetResource(clients[i], i, "~who/trusty/mysql-0", "resname", revision,
                                 ans))
    /\ UNCHANGED <<clients, made>>
    /\ UNCHANGED besidesClient

NextClient ==
    \/ callWithChannel
    \/ callDo
    \/ callGet
    \/ callPut
    \/ callDoWithResponse
    \/ callGetResource

SpecClient == InitClient /\ [][NextClient]_vars

\* ------------------------------------------------------ the progress monitor
\* Total sizes of a transfer.
Sizes == {0, MaxCurrent}

InitMonitor ==
    /\ UploadIdle
    /\ ArchiveIdle
    /\ ConcurrentIdle
    /\ ClientIdle
    /\ ChannelsIdle
    /\ RepoIdle
    /\ \E total \in Sizes : monitor = NewMonitor(total)
    /\ observed = NothingObserved

\* Where run goes when setStatus returns (iomon.go:99-108): to the select,
\* whose Clock.After starts a timer, or out of the loop after the final call.
afterSetStatus(m) ==
    IF m.at = "kill"
      THEN [m EXCEPT !.pc = "exited"]
      ELSE [m EXCEPT !.pc = "select", !.timer = "pending"]

\* Monitor.setStatus up to the call of the setter (iomon.go:111-120)
setStatus ==
    /\ monitor.pc = "setStatus"
    /\ LET status == Status(monitor.current, monitor.Size) IN
       IF status # monitor.currentStatus
         THEN /\ monitor' = [monitor EXCEPT !.pc = "SetStatus", !.status = status]
              /\ observed' = [observed EXCEPT !.delivered =
                                 Append(@, [status |-> status, at |-> monitor.at])]
         ELSE /\ monitor' = afterSetStatus([monitor EXCEPT !.status = status])
              /\ UNCHANGED observed
    /\ UNCHANGED besidesMonitor

\* The setter returns and setStatus records the status (iomon.go:120-122).
SetStatusReturns ==
    /\ monitor.pc = "SetStatus"
    /\ monitor' = afterSetStatus([monitor EXCEPT !.currentStatus = monitor.status])
    /\ UNCHANGED observed
    /\ UNCHANGED besidesMonitor

\* case <-m.p.Clock.After(m.p.UpdateInterval) (iomon.go:102)
selectAfter ==
    /\ monitor.pc = "select"
    /\ monitor.timer = "fired"
    /\ monitor' = [monitor EXCEPT !.pc = "setStatus", !.at = "interval", !.timer = "unset"]
    /\ UNCHANGED observed
    /\ UNCHANGED besidesMonitor

selectDying_noFinal ==
    /\ monitor.pc = "select"
    /\ monitor.dying
    /\ monitor' = [monitor EXCEPT !.pc = "exited"]
    /\ UNCHANGED observed
    /\ UNCHANGED besidesMonitor

\* case <-m.tomb.Dying() (iomon.go:103-106)
selectDying ==
    /\ monitor.pc = "select"
    /\ monitor.dying
    /\ monitor' = [monitor EXCEPT !.pc = "setStatus", !.at = "kill"]
    /\ UNCHANGED observed
    /\ UNCHANGED besidesMonitor

Update_setsStatus(current) ==
    /\ monitor.pc # "none"
    /\ observed.updates < MaxUpdates
    /\ monitor' = [monitor EXCEPT !.current = current]
    /\ observed' = [observed EXCEPT
                       !.updates = @ + 1,
                       !.delivered = Append(@, [status |-> Status(current, monitor.Size),
                                                at |-> "update"]),
                       !.updatesAfterKill = IF observed.killed THEN @ + 1 ELSE @,
                       !.setAfterKill = IF observed.killed THEN @ \cup {current} ELSE @,
                       !.updatesAfterWait = IF monitor.waited THEN @ + 1 ELSE @]
    /\ UNCHANGED besidesMonitor

\* Monitor.Update (iomon.go:79-83)
Update(current) ==
    /\ monitor.pc # "none"
    /\ observed.updates < MaxUpdates
    /\ monitor' = [monitor EXCEPT !.current = current]
    /\ observed' = [observed EXCEPT
                       !.updates = @ + 1,
                       !.updatesAfterKill = IF observed.killed THEN @ + 1 ELSE @,
                       !.setAfterKill = IF observed.killed THEN @ \cup {current} ELSE @,
                       !.updatesAfterWait = IF monitor.waited THEN @ + 1 ELSE @]
    /\ UNCHANGED besidesMonitor

\* Monitor.Kill (iomon.go:67-69): the first call puts the tomb in the dying
\* state, a later one changes nothing.
Kill ==
    /\ monitor.pc # "none"
    /\ ~monitor.dying
    /\ monitor' = [monitor EXCEPT !.dying = TRUE]
    /\ observed' = [observed EXCEPT !.killed = TRUE, !.killCurrent = monitor.current]
    /\ UNCHANGED besidesMonitor

Wait_dying ==
    /\ monitor.dying
    /\ ~monitor.waited
    /\ monitor' = [monitor EXCEPT !.waited = TRUE]
    /\ observed' = [observed EXCEPT !.deliveredAtWait = Len(observed.delivered)]
    /\ UNCHANGED besidesMonitor

\* Monitor.Wait (iomon.go:74-77) returns when run has returned.
Wait ==
    /\ monitor.pc = "exited"
    /\ ~monitor.waited
    /\ monitor' = [monitor EXCEPT !.waited = TRUE]
    /\ observed' = [observed EXCEPT !.deliveredAtWait = Len(observed.delivered)]
    /\ UNCHANGED besidesMonitor

\* The clock advances by an update interval: a timer that is running fires.
Advance ==
    /\ monitor.pc # "none"
    /\ observed.elapsed < MaxTicks
    /\ monitor' = [monitor EXCEPT !.timer = IF @ = "pending" THEN "fired" ELSE @]
    /\ observed' = [observed EXCEPT
                       !.elapsed = @ + 1,
                       !.elapsedAfterWait = IF monitor.waited THEN @ + 1 ELSE @]
    /\ UNCHANGED besidesMonitor

\* The steps of the goroutine of run.
runStep ==
    \/ setStatus
    \/ selectAfter
    \/ selectDying

NextMonitor ==
    \/ setStatus
    \/ SetStatusReturns
    \/ selectAfter
    \/ selectDying
    \/ \E current \in 0..MaxCurrent : Update(current)
    \/ Kill
    \/ Wait
    \/ Advance

SpecMonitor == InitMonitor /\ [][NextMonitor]_vars

\* The goroutine of run is scheduled and the setter returns; nothing is
\* asked of the clock or of the callers of Update, Kill and Wait.
SpecMonitorLive ==
    /\ InitMonitor
    /\ [][NextMonitor]_vars
    /\ WF_vars(runStep)
    /\ WF_vars(SetStatusReturns)

\* ------------------------------------------------- the channel of a resolution
\* One behaviour of SpecChannels is one call: a resolution of one URL by a
\* repository whose client has a channel, against the published info the
\* store holds for the entity, or sortChannels applied to a slice (and then
\* to its own result).
StableChannel == "stable"
CandidateChannel == "candidate"
BetaChannel == "beta"
EdgeChannel == "edge"
DevelopmentChannel == "development"
UnpublishedChannel == "unpublished"

PublishedChannels ==
    {StableChannel, CandidateChannel, BetaChannel, EdgeChannel, DevelopmentChannel,
     UnpublishedChannel}

PreferredChannels == PublishedChannels \cup {NoChannel}

PublishedLists == UNION {[1..n -> PublishedChannels] : n \in 0..MaxPublished}

\* var oldChannels = map[params.Channel]int{...}
oldChannels == [stable |-> 1, development |-> 2, unpublished |-> 3]

\* oldChannels[c]: the zero value for a key the map does not hold.
stabilityLevel(c) == IF c \in DOMAIN oldChannels THEN oldChannels[c] ELSE 0

Less(o, i, j) == stabilityLevel(o[i]) < stabilityLevel(o[j])

Swap(o, i, j) == [o EXCEPT ![i] = o[j], ![j] = o[i]]

\* The inner loop of the insertion sort sort.Sort runs on a short slice:
\* for j := i; j > a && less(j, j-1); j-- { swap(j, j-1) }.
RECURSIVE sinkTo(_, _)
sinkTo(o, j) ==
    IF j > 1 /\ Less(o, j, j - 1) THEN sinkTo(Swap(o, j, j - 1), j - 1) ELSE o

\* for i := a + 1; i < b; i++ { ... }
RECURSIVE insertionSort(_, _)
insertionSort(o, i) == IF i > Len(o) THEN o ELSE insertionSort(sinkTo(o, i), i + 1)

sortChannels_always(channels) == insertionSort(channels, 2)

sortChannels(channels) ==
    IF \E i \in 1..Len(channels) : channels[i] \notin DOMAIN oldChannels
    THEN channels
    ELSE insertionSort(channels, 2)

bestChannel(published, preferredChannel) ==
    IF preferredChannel # NoChannel THEN preferredChannel
    ELSE IF Len(published) = 0 THEN UnpublishedChannel
    ELSE sortChannels(published)[1]

MetaAnswers == {"ok", "not found", "error"}

InitChannels ==
    /\ UploadIdle
    /\ ArchiveIdle
    /\ ConcurrentIdle
    /\ ClientIdle
    /\ MonitorIdle
    /\ RepoIdle
    /\ \E c \in PreferredChannels, published \in PublishedLists :
        resolution = [NoResolution EXCEPT !.pc = "ready", !.client = c,
                                          !.published = published,
                                          !.channels = published]

resolved(op, channel, err, best) ==
    /\ resolution' = [resolution EXCEPT !.pc = "resolved", !.op = op,
                                        !.preferred = channel,
                                        !.metaChannel = channel, !.err = err,
                                        !.channel = best]
    /\ UNCHANGED besidesChannels

ResolveWithPreferredChannel(op, channel, answer) ==
    /\ resolution.pc = "ready"
    /\ IF answer = "not found"
       THEN resolved(op, channel, "not found", NoChannel)
       ELSE IF answer = "error"
       THEN resolved(op, channel, "cannot resolve charm URL", NoChannel)
       ELSE LET preferred == IF channel = NoChannel THEN resolution.client
                             ELSE channel
            IN resolved(op, channel, "", bestChannel(resolution.published, preferred))

ResolveWithChannel(answer) ==
    ResolveWithPreferredChannel("ResolveWithChannel", resolution.client, answer)

callResolveWithChannel == \E answer \in MetaAnswers : ResolveWithChannel(answer)

callResolveWithPreferredChannel ==
    \E channel \in PreferredChannels, answer \in MetaAnswers :
        ResolveWithPreferredChannel("ResolveWithPreferredChannel", channel, answer)

\* charmrepo.SortChannels(test.input), and once more on what it left.
callSortChannels ==
    /\ resolution.pc \in {"ready", "sorted"}
    /\ resolution.sorts < 2
    /\ resolution' = [resolution EXCEPT !.pc = "sorted", !.op = "sortChannels",
                                        !.before = resolution.channels,
                                        !.channels = sortChannels(resolution.channels),
                                        !.sorts = @ + 1]
    /\ UNCHANGED besidesChannels

NextChannels ==
    \/ callResolveWithChannel
    \/ callResolveWithPreferredChannel
    \/ callSortChannels

SpecChannels == InitChannels /\ [][NextChannels]_vars

\* ------------------------------------------------ repositories and their client
\* A behaviour of SpecRepository starts with the repository NewCharmStore
\* returns; WithTestMode and WithJujuAttrs make further repositories, and Get
\* through any of them sends an archive request with the query and the header
\* of the client that repository holds.
\* The Juju-Metadata header values of a request: make(http.Header) plus one
\* header.Add per attribute.
NoHeader == {}
AttrSets == {NoHeader, {"k1=v1"}}

\* csclient.New: stats counted, no custom header.
NewClient == [statsDisabled |-> FALSE, header |-> NoHeader]

\* NewCharmStoreFromClient(client): the repository holds the client's address.
NewCharmStoreFromClient(c) == [client |-> c, testMode |-> FALSE, attrs |-> NoHeader]

InitRepository ==
    /\ UploadIdle
    /\ ArchiveIdle
    /\ ConcurrentIdle
    /\ ClientIdle
    /\ MonitorIdle
    /\ ChannelsIdle
    /\ repository = [pc |-> "ready", clients |-> <<NewClient>>,
                     repos |-> <<NewCharmStoreFromClient(1)>>, requests |-> <<>>]

\* Client.DisableStats assigns the field of the client it is called on.
DisableStats(clientsNow, c) == [clientsNow EXCEPT ![c].statsDisabled = TRUE]

\* Client.SetHTTPHeader likewise.
SetHTTPHeader(clientsNow, c, header) == [clientsNow EXCEPT ![c].header = header]

\* newRepo := *s copies the CharmStore struct, whose one field is the client
\* reference: the new repository holds the client the receiver holds.  The
\* fields testMode and attrs are history: what the repository was made with.
WithTestMode(i) ==
    /\ repository.pc = "ready"
    /\ i \in 1..Len(repository.repos)
    /\ Len(repository.repos) < MaxRepos
    /\ LET s == repository.repos[i]
           newRepo == [s EXCEPT !.testMode = TRUE]
       IN repository' = [repository EXCEPT
              !.clients = DisableStats(repository.clients, newRepo.client),
              !.repos = Append(repository.repos, newRepo)]
    /\ UNCHANGED besidesRepo

WithJujuAttrs(i, attrs) ==
    /\ repository.pc = "ready"
    /\ i \in 1..Len(repository.repos)
    /\ Len(repository.repos) < MaxRepos
    /\ LET s == repository.repos[i]
           newRepo == [s EXCEPT !.attrs = attrs]
       IN repository' = [repository EXCEPT
              !.clients = SetHTTPHeader(repository.clients, newRepo.client, attrs),
              !.repos = Append(repository.repos, newRepo)]
    /\ UNCHANGED besidesRepo

\* Client.GetArchive sets stats=0 when statsDisabled; Client.Do adds c.header.
ArchiveRequest(c) == [stats |-> ~c.statsDisabled, header |-> c.header]

\* CharmStore.Get: archivePath asks the repository's client for the archive.
repoGet(i) ==
    /\ repository.pc = "ready"
    /\ i \in 1..Len(repository.repos)
    /\ Len(repository.requests) < MaxGets
    /\ LET c == repository.clients[repository.repos[i].client]
       IN repository' = [repository EXCEPT
              !.requests = Append(repository.requests,
                                  [repo |-> i, repos |-> Len(repository.repos),
                                   req |-> ArchiveRequest(c)])]
    /\ UNCHANGED besidesRepo

NextRepository ==
    \/ \E i \in 1..MaxRepos : WithTestMode(i)
    \/ \E i \in 1..MaxRepos, attrs \in AttrSets : WithJujuAttrs(i, attrs)
    \/ \E i \in 1..MaxRepos : repoGet(i)

SpecRepository == InitRepository /\ [][NextRepository]_vars

\* ------------------------------------------- uploads against any session
\* SpecSessions is the upload call of Spec against a store that may describe
\* the session with any limits, zero included, and with recorded parts of
\* any size, zero included.  The transport fails an attempt at most once.
AnyLimits ==
    Limits \cup {[MinPartSize |-> 0, MaxPartSize |-> 0, MaxParts |-> 0],
                 [MinPartSize |-> 0, MaxPartSize |-> 2, MaxParts |-> 2],
                 [MinPartSize |-> 2, MaxPartSize |-> 2, MaxParts |-> 2]}

\* Parts recorded near the start of the payload, of no byte or of one.
AnyRecordedParts ==
    {IncompletePart} \cup {CompletePart(o, s) : o \in {0, 1}, s \in {0, 1}}

AnyRecordedLists ==
    UNION {{l \in [1..n -> AnyRecordedParts] :
              Cardinality({k \in 1..n : l[k].Complete}) <= MaxComplete} : n \in 0..MaxRecorded}

AnySessions(id, lists) ==
    {[UploadId |-> id, MinPartSize |-> l.MinPartSize, MaxPartSize |-> l.MaxPartSize,
      MaxParts |-> l.MaxParts, Parts |-> ps] : l \in AnyLimits, ps \in lists}

InitSessions ==
    /\ ArchiveIdle
    /\ ConcurrentIdle
    /\ ClientIdle
    /\ MonitorIdle
    /\ ChannelsIdle
    /\ RepoIdle
    /\ pc = "call"
    /\ uploadId \in {"", "u1"}
    /\ \E c \in Calls :
          /\ size = c.size
          /\ minMultipartUploadSize = c.threshold
    /\ contentLen = size
    /\ session = NoSession
    /\ info = [UploadId |-> "", MinPartSize |-> 0, MaxPartSize |-> 0, MaxParts |-> 0,
               Parts |-> <<>>, preferredPartSize |-> 0]
    /\ parts = <<>>
    /\ partIndex = 0
    /\ offset = 0
    /\ p0 = 0
    /\ p1 = 0
    /\ hash = NoHash
    /\ try = 0
    /\ pos = 0
    /\ read = 0
    /\ lastError = NoError
    /\ progress = <<>>
    /\ requests = <<>>
    /\ ranges = <<>>
    /\ result = NoResult
    /\ softLeft = 1
    /\ shortLeft = 0

uploadMultipartResourceAny ==
    uploadMultipartResourceFrom(AnySessions("new", {<<>>}),
                                AnySessions(uploadId, AnyRecordedLists))

NextSessions ==
    \/ ResumeUploadResource
    \/ uploadSinglePartResource
    \/ postResource
    \/ uploadMultipartResourceAny
    \/ uploadParts
    \/ Read
    \/ uploadPart
    \/ Finalizing
    \/ finishUpload
    \/ bindResource

SpecSessions == InitSessions /\ [][NextSessions]_vars

\* Every request gets its answer and the loop of uploadParts goes on: nothing
\* is asked of the answers themselves.
SpecSessionsLive ==
    /\ InitSessions
    /\ [][NextSessions]_vars
    /\ WF_vars(uploadParts)
    /\ WF_vars(uploadPart)

\* ------------------------------------------------------- reading the logs
PartRequests(i) == {k \in 1..Len(requests) : requests[k].kind = "part" /\ requests[k].part = i}
OkRequests(i) == {k \in PartRequests(i) : requests[k].outcome = "ok"}
SoftRequests(i) == {k \in PartRequests(i) : requests[k].outcome \in SoftCauses}
APIRequests(i) == {k \in PartRequests(i) : requests[k].outcome \in APICauses}
AnyPartRequest == \E k \in 1..Len(requests) : requests[k].kind = "part"
FinishRequests == {k \in 1..Len(requests) : requests[k].kind = "finish"}

Events(kind) == {k \in 1..Len(progress) : progress[k].ev = kind}
ErrorEvents(i) == {k \in Events("Error") : progress[k].part = i}
TransferredEvents(i) == {k \in Events("Transferred") : progress[k].part = i}

\* Part indices the loop has handled or is handling.
Handled == 0..(Len(ranges) - 1)

\* The session as the store described it.
RecordedComplete(i) == i < Len(session.Parts) /\ session.Parts[i + 1].Complete
RecordedOffset(i) == session.Parts[i + 1].Offset
RecordedEnd(i) == session.Parts[i + 1].Offset + session.Parts[i + 1].Size
RecordedInside ==
    \A i \in 0..(Len(session.Parts) - 1) :
        RecordedComplete(i) => RecordedOffset(i) >= 0 /\ RecordedEnd(i) <= size

\* Offset the loop had reached when it came to index i.
RunningOffset(i) == IF i = 0 THEN 0 ELSE ranges[i].p1

Multipart ==
    /\ session # NoSession
    /\ result.msg # "unexpected upload id in response"
ReachedFinalization ==
    \/ pc \in {"finalizing", "finishing", "binding"}
    \/ Events("Finalizing") # {}

\* ------------------------------------------------------------------ claims

\* The byte range of part i as the finished upload holds it: the recorded
\* range of a part the session had complete, the range of the successful
\* request otherwise.
HeldStart(i) ==
    IF RecordedComplete(i) THEN RecordedOffset(i)
    ELSE requests[CHOOSE k \in OkRequests(i) : TRUE].p0
HeldEnd(i) ==
    IF RecordedComplete(i) THEN RecordedEnd(i)
    ELSE requests[CHOOSE k \in OkRequests(i) : TRUE].p1

\* C1: in an upload that reaches finalization from a session whose recorded
\* complete parts lie inside the payload, the ranges of the parts in index
\* order (recorded for complete parts, uploaded for the others) start at 0,
\* are contiguous, do not overlap and end at the payload size, and no part
\* recorded complete is sent again.
C1_PartsPartitionPayload ==
    (ReachedFinalization /\ RecordedInside) =>
        /\ \A i \in Handled :
              /\ RecordedComplete(i) => PartRequests(i) = {}
              /\ ~RecordedComplete(i) => Cardinality(OkRequests(i)) = 1
              /\ HeldStart(i) = (IF i = 0 THEN 0 ELSE HeldEnd(i - 1))
              /\ HeldStart(i) <= HeldEnd(i)
        /\ IF Handled = {} THEN size = 0 ELSE HeldEnd(Len(ranges) - 1) = size
        /\ \A k \in 1..Len(requests) :
              requests[k].kind = "part" => requests[k].part \in Handled

C1_Witness ==
    /\ pc = "done"
    /\ uploadId # ""
    /\ RecordedInside
    /\ \E i \in Handled : RecordedComplete(i)
    /\ \E i \in Handled : ~RecordedComplete(i) /\ i + 1 \in Handled

\* C2: a part whose PUT fails k times (1 <= k <= 9) with non-API errors and
\* then succeeds does not fail the upload; the sink receives exactly k Error
\* events for it, each followed at once by a Transferred event carrying the
\* start offset of that part.
C2_RetriedPartSucceeds ==
    /\ \A i \in Handled :
          OkRequests(i) # {} =>
              /\ Cardinality(SoftRequests(i)) <= MaxAttempts - 1
              /\ Cardinality(ErrorEvents(i)) = Cardinality(SoftRequests(i))
              /\ ~(pc = "failed" /\ result.err.part = i)
    /\ \A k \in Events("Error") :
          /\ k < Len(progress)
          /\ progress[k + 1] = EvTransferred(ranges[progress[k].part + 1].p0, progress[k].part)

C2_Witness ==
    /\ pc = "done"
    /\ result.status = "ok"
    /\ \E i \in Handled :
          /\ ranges[i + 1].p0 > 0
          /\ Cardinality(ErrorEvents(i)) = MaxAttempts - 1
          /\ OkRequests(i) # {}

\* C3: a part is sent at most 10 times; after 10 failed attempts the call
\* fails with "too many attempts; last error" around the error of the last
\* attempt, 10 Error events were emitted for the part, no later part is
\* sent and finalization does not happen.
C3_GivesUpAfterTenAttempts ==
    \A i \in Handled :
        /\ Cardinality(PartRequests(i)) <= MaxAttempts
        /\ Cardinality(SoftRequests(i)) = MaxAttempts =>
              /\ pc = "failed"
              /\ result.status = "error"
              /\ result.msg = "too many attempts; last error"
              /\ result.err = [cause |-> requests[Len(requests)].outcome, part |-> i,
                               attempt |-> MaxAttempts - 1]
              /\ requests[Len(requests)].part = i
              /\ Cardinality(ErrorEvents(i)) = MaxAttempts
              /\ \A k \in 1..Len(requests) :
                    requests[k].kind = "part" => requests[k].part <= i
              /\ Events("Finalizing") = {}
              /\ FinishRequests = {}

C3_Witness ==
    /\ pc = "failed"
    /\ result.msg = "too many attempts; last error"
    /\ partIndex > 0
    /\ Cardinality(ErrorEvents(partIndex)) = MaxAttempts

\* C4: an attempt that fails with an API error ends the call with that
\* error: it is the last request, no Error event is emitted for it, and
\* finalization does not happen.
C4_APIErrorAborts ==
    \A k \in 1..Len(requests) :
        (requests[k].kind = "part" /\ requests[k].outcome \in APICauses) =>
            /\ k = Len(requests)
            /\ pc = "failed"
            /\ result.status = "error"
            /\ result.err.cause = requests[k].outcome
            /\ result.err.part = requests[k].part
            /\ Cardinality(ErrorEvents(requests[k].part))
                  = Cardinality(SoftRequests(requests[k].part))
            /\ Events("Finalizing") = {}
            /\ FinishRequests = {}

C4_Witness ==
    /\ pc = "failed"
    /\ APIRequests(partIndex) # {}
    /\ SoftRequests(partIndex) # {}
    /\ partIndex > 0

\* Totals of the Transferred events, in the order the sink received them.
LastEvent(kind) ==
    LET evs == Events(kind) IN CHOOSE k \in evs : \A m \in evs : m <= k
NoPartFailed ==
    \A k \in 1..Len(requests) : requests[k].kind = "part" => requests[k].outcome = "ok"
SingleShot == \E k \in 1..Len(requests) : requests[k].kind = "post"

StartsOnce == Cardinality(Events("Start")) = 1 /\ progress[1].ev = "Start"
FinalizesOnceAtEnd ==
    /\ Cardinality(Events("Finalizing")) = 1
    /\ progress[Len(progress)].ev = "Finalizing"

\* C5 as stated: every successful call, single-part or multipart, delivers
\* exactly one Start, first, and exactly one Finalizing, after every
\* Transferred and Error event.
C5_AsStated ==
    result.status = "ok" => StartsOnce /\ FinalizesOnceAtEnd

\* C5 as amended: every successful call delivers exactly one Start, before
\* every other event; a successful multipart call also delivers exactly one
\* Finalizing, after every Transferred and Error event and before the
\* finalize request is sent; a successful single-part call delivers no
\* Finalizing.
C5_StartThenFinalizing ==
    /\ result.status = "ok" => StartsOnce
    /\ (result.status = "ok" /\ ~SingleShot) => FinalizesOnceAtEnd /\ FinishRequests # {}
    /\ (result.status = "ok" /\ SingleShot) => Events("Finalizing") = {}
    /\ FinishRequests # {} => FinalizesOnceAtEnd

C5_Witness ==
    /\ result.status = "ok"
    /\ ~SingleShot
    /\ Events("Error") # {}
    /\ Cardinality(Events("Transferred")) > 2

\* Transferred totals never decrease while no attempt fails.
TotalsNonDecreasing ==
    \A k, m \in Events("Transferred") : k < m => progress[k].n <= progress[m].n
\* No Transferred event of a part reports less than the start offset of
\* that part, and the last total before Finalizing is the largest reported.
RetryStaysInPart ==
    /\ \A i \in Handled : \A k \in TransferredEvents(i) : progress[k].n >= ranges[i + 1].p0
    /\ (Events("Finalizing") # {} /\ Events("Transferred") # {}) =>
          LET last == progress[LastEvent("Transferred")].n
          IN  \A k \in Events("Transferred") : progress[k].n <= last

\* C6 as stated: without a failed attempt the totals are non-decreasing and
\* the last one before Finalizing equals the payload size; a retry never
\* reports less than the start of the retried part and the total is back at
\* its maximum before Finalizing.
C6_AsStated ==
    /\ (Multipart /\ NoPartFailed) =>
          /\ TotalsNonDecreasing
          /\ (Events("Finalizing") # {} /\ Events("Transferred") # {}) =>
                progress[LastEvent("Transferred")].n = size
    /\ Multipart => RetryStaysInPart

\* C6 as amended: the same, except that the last total before Finalizing is
\* at least the payload size, and equals it when the complete parts the
\* session records lie inside the payload.
C6_TransferredTotals ==
    /\ (Multipart /\ NoPartFailed) =>
          /\ TotalsNonDecreasing
          /\ (Events("Finalizing") # {} /\ Events("Transferred") # {}) =>
                /\ progress[LastEvent("Transferred")].n >= size
                /\ RecordedInside => progress[LastEvent("Transferred")].n = size
    /\ Multipart => RetryStaysInPart

C6_Witness ==
    /\ pc = "done"
    /\ Multipart
    /\ RecordedInside
    /\ \E k \in Events("Error") : progress[k + 1].n > 0 /\ progress[k - 1].n > progress[k + 1].n
    /\ \E i \in Handled : RecordedComplete(i)

\* C7: a payload larger than MaxPartSize*MaxParts of the session fails with
\* "resource too big" stating that maximum, and neither a part nor the
\* finalize request is sent.
C7_TooBigRejected ==
    (Multipart /\ size > session.MaxPartSize * session.MaxParts) =>
        /\ pc = "failed"
        /\ result.status = "error"
        /\ result.msg = "resource too big"
        /\ result.detail = session.MaxPartSize * session.MaxParts
        /\ ~AnyPartRequest
        /\ FinishRequests = {}

C7_Witness ==
    /\ result.msg = "resource too big"
    /\ session.MaxParts > 1
    /\ size = session.MaxPartSize * session.MaxParts + 1

\* Part i is missing and part i+1 is recorded complete.
SingleGap(i) == ~RecordedComplete(i) /\ RecordedComplete(i + 1)
SentRangesAgree(i) ==
    \A k \in PartRequests(i) :
        requests[k].p0 = ranges[i + 1].p0 /\ requests[k].p1 = ranges[i + 1].p1

\* C8: a missing part followed by a complete one gets exactly the range from
\* the running offset to the offset of the complete part; when that length
\* is outside [MinPartSize, MaxPartSize] the call fails with the sizing
\* error and no request is sent for the part.
C8_SingleGapExact ==
    /\ \A i \in Handled :
          SingleGap(i) =>
              /\ ranges[i + 1].p0 = RunningOffset(i)
              /\ ranges[i + 1].p1 = RecordedOffset(i + 1)
              /\ ranges[i + 1].p1 - ranges[i + 1].p0 >= session.MinPartSize
              /\ ranges[i + 1].p1 - ranges[i + 1].p0 <= session.MaxPartSize
              /\ SentRangesAgree(i)
    /\ result.msg \in {"remaining part is too small", "remaining part is too large"} =>
          /\ pc = "failed"
          /\ result.detail = Len(ranges)
          /\ SingleGap(result.detail)
          /\ PartRequests(result.detail) = {}
          /\ LET gap == RecordedOffset(result.detail + 1) - RunningOffset(result.detail)
             IN  IF result.msg = "remaining part is too small"
                   THEN gap < session.MinPartSize
                   ELSE gap > session.MaxPartSize
    /\ \A i \in 0..(Len(session.Parts) - 2) :
          (SingleGap(i) /\ pc = "parts" /\ partIndex = i /\ offset < size
              /\ (RecordedOffset(i + 1) - offset < session.MinPartSize
                     \/ RecordedOffset(i + 1) - offset > session.MaxPartSize))
            => ~ENABLED (uploadParts /\ pc' = "sending")

C8_Witness ==
    /\ result.msg = "remaining part is too large"
    /\ result.detail > 0
    /\ PartRequests(result.detail - 1) # {}

\* The next part after i that the session records complete (0 when none).
NextComplete(i) ==
    LET later == {j \in (i + 1)..(Len(session.Parts) - 1) : RecordedComplete(j)}
    IN  IF later = {} THEN 0 ELSE CHOOSE j \in later : \A m \in later : j <= m

\* C9: the missing parts before a complete part at offset b get contiguous
\* ranges from the running offset: each but the last takes the integer
\* quotient of what is left of the gap by the number of parts still
\* missing, the last takes all that is left, so the ranges end at b where
\* the complete part begins.
C9_GapDividedEvenly ==
    /\ \A i \in Handled :
          (~RecordedComplete(i) /\ NextComplete(i) > i) =>
              LET d == NextComplete(i) - i
                  a == RunningOffset(i)
                  b == RecordedOffset(NextComplete(i))
              IN  /\ ranges[i + 1].p0 = a
                  /\ ranges[i + 1].p1 = IF d = 1 THEN b ELSE a + GoDiv(b - a, d)
                  /\ SentRangesAgree(i)
    /\ \A j \in Handled :
          (RecordedComplete(j) /\ j > 0 /\ ~RecordedComplete(j - 1)) =>
              ranges[j].p1 = RecordedOffset(j)

C9_Witness ==
    /\ pc = "done"
    /\ \E i \in Handled :
          /\ ~RecordedComplete(i) /\ ~RecordedComplete(i + 1)
          /\ NextComplete(i) = i + 2
          /\ i + 2 \in Handled
          /\ ranges[i + 1].p1 - ranges[i + 1].p0 < ranges[i + 2].p1 - ranges[i + 2].p0
          /\ ranges[i + 1].p1 > ranges[i + 1].p0

\* C10: a part recorded complete at an offset different from the running
\* offset fails the call with the offset-mismatch error: no Transferred
\* event for that part, no request for it or a later part, no finalization;
\* the loop never passes such a part.
C10_OffsetMismatchFails ==
    /\ result.msg = "offset mismatch" =>
          /\ pc = "failed"
          /\ result.status = "error"
          /\ result.detail = Len(ranges)
          /\ RecordedComplete(result.detail)
          /\ RecordedOffset(result.detail) # RunningOffset(result.detail)
          /\ TransferredEvents(result.detail) = {}
          /\ \A k \in 1..Len(requests) :
                requests[k].kind = "part" => requests[k].part < result.detail
          /\ Events("Finalizing") = {}
          /\ FinishRequests = {}
    /\ \A i \in Handled :
          RecordedComplete(i) =>
              /\ RecordedOffset(i) = RunningOffset(i)
              /\ ranges[i + 1].p0 = RecordedOffset(i)
              /\ ~ranges[i + 1].uploaded

C10_Witness ==
    /\ result.msg = "offset mismatch"
    /\ result.detail > 0
    /\ AnyPartRequest
    /\ Events("Transferred") # {}

ResumeRequests == {k \in 1..Len(requests) : requests[k].kind = "resume"}

\* C11: a call with an upload id and a payload at or above the threshold
\* asks the store for that upload first; when the store answers not-found
\* the call fails with the cause ErrUploadNotFound, which is not the generic
\* not-found cause, that request is the only one of the call (no part, no
\* finalize request) and the sink receives nothing; no other answer gives
\* that cause.
C11_UnknownUploadNotFound ==
    /\ (uploadId # "" /\ size >= minMultipartUploadSize /\ requests # <<>>) =>
          requests[1].kind = "resume"
    /\ \A k \in ResumeRequests :
          requests[k].outcome = "ErrNotFound" =>
              /\ pc = "failed"
              /\ result.status = "error"
              /\ result.err.cause = "ErrUploadNotFound"
              /\ result.err.cause # requests[k].outcome
              /\ Len(requests) = 1
              /\ ~AnyPartRequest
              /\ FinishRequests = {}
              /\ progress = <<>>
    /\ result.err.cause = "ErrUploadNotFound" =>
          /\ ResumeRequests # {}
          /\ requests[1].outcome = "ErrNotFound"

C11_Witness ==
    /\ pc = "failed"
    /\ uploadId # ""
    /\ size > minMultipartUploadSize
    /\ result.err.cause = "ErrUploadNotFound"

IsPrefix(s, t) == Len(s) <= Len(t) /\ \A k \in 1..Len(s) : s[k] = t[k]
RequestKinds == [k \in 1..Len(requests) |-> requests[k].kind]

\* The session records every part complete, one after the other from 0 to
\* the payload size, and its limits admit the payload, as they did in the
\* call that uploaded those parts.
AllRecorded ==
    /\ Multipart
    /\ uploadId # ""
    /\ Len(session.Parts) > 0
    /\ \A i \in 0..(Len(session.Parts) - 1) :
          /\ RecordedComplete(i)
          /\ RecordedOffset(i) = (IF i = 0 THEN 0 ELSE RecordedEnd(i - 1))
    /\ RecordedEnd(Len(session.Parts) - 1) = size
    /\ size <= session.MaxPartSize * session.MaxParts
RecordedEvents ==
    <<EvStart(uploadId)>>
        \o [k \in 1..Len(session.Parts) |-> EvTransferred(RecordedEnd(k - 1), k - 1)]
        \o <<EvFinalizing>>

\* C12: a call that resumes a session whose parts are all recorded complete
\* and cover the payload sends no part: the sink receives Start, one
\* Transferred event per recorded part carrying the end of that part, then
\* Finalizing; after the request for the session the only requests are the
\* finalize request, carrying the recorded parts and sent after Finalizing,
\* and then the request that binds the resource.
C12_ResumeCompleteSendsNoPart ==
    AllRecorded =>
        /\ ~AnyPartRequest
        /\ IsPrefix(progress, RecordedEvents)
        /\ IsPrefix(RequestKinds, <<"resume", "finish", "bind">>)
        /\ FinishRequests # {} =>
              /\ progress = RecordedEvents
              /\ requests[2].hash = session.Parts
        /\ pc = "done" => RequestKinds = <<"resume", "finish", "bind">>
        /\ pc = "failed" => FinishRequests # {}

C12_Witness ==
    /\ AllRecorded
    /\ pc = "done"
    /\ Len(session.Parts) > 1
    /\ Cardinality(Events("Transferred")) = Len(session.Parts)

BindRequests == {k \in 1..Len(requests) : requests[k].kind = "bind"}

\* C13: a call sends the finalize request at most once, after Finalizing
\* and when the loop has covered the payload: every index it handled was
\* recorded complete by the session or answered ok before, and is complete
\* in the parts list the request carries.  A failed finalize request is the
\* last request of the call, which returns its error; the binding request
\* is only sent after a finalize request that succeeded.
C13_FinalizeOnceNoRetry ==
    /\ Cardinality(FinishRequests) <= 1
    /\ \A k \in FinishRequests :
          /\ Events("Finalizing") # {}
          /\ offset >= size
          /\ Len(ranges) = partIndex
          /\ \A i \in Handled :
                /\ RecordedComplete(i) \/ \E m \in OkRequests(i) : m < k
                /\ requests[k].hash[i + 1].Complete
          /\ \A m \in 1..Len(requests) : requests[m].kind = "part" => m < k
          /\ requests[k].outcome # "ok" =>
                /\ k = Len(requests)
                /\ pc = "failed"
                /\ result.status = "error"
                /\ result.err.cause = requests[k].outcome
                /\ BindRequests = {}
    /\ \A b \in BindRequests :
          /\ b > 1
          /\ requests[b - 1].kind = "finish"
          /\ requests[b - 1].outcome = "ok"

C13_Witness ==
    /\ pc = "failed"
    /\ FinishRequests # {}
    /\ requests[Len(requests)].kind = "finish"
    /\ Events("Error") # {}
    /\ Cardinality({k \in 1..Len(requests) : requests[k].kind = "part"
                                               /\ requests[k].outcome = "ok"}) > 1

PostRequests == {k \in 1..Len(requests) : requests[k].kind = "post"}

\* C14: a call whose payload is smaller than the threshold sends nothing but
\* the POST of the resource, at most once and exactly once when it succeeds,
\* with the hash of the whole payload, and never opens or reads a session; a
\* call whose payload is as large as the threshold or larger begins with the
\* request that creates a session (no upload id) or reads one (upload id).
C14_ThresholdSelectsPath ==
    /\ size < minMultipartUploadSize =>
          /\ \A k \in 1..Len(requests) : requests[k].kind = "post"
          /\ Cardinality(PostRequests) <= 1
          /\ \A k \in PostRequests :
                /\ requests[k].hash = <<0, size>>
                /\ requests[k].p0 = 0
                /\ requests[k].p1 = size
          /\ result.status = "ok" => Cardinality(PostRequests) = 1
          /\ session = NoSession
          /\ pc \notin {"multipart", "parts", "sending", "finalizing", "finishing", "binding"}
    /\ size >= minMultipartUploadSize =>
          /\ pc \notin {"call", "multipart"} => requests # <<>>
          /\ requests # <<>> =>
                requests[1].kind = (IF uploadId = "" THEN "create" ELSE "resume")

C14_Witness ==
    /\ pc = "done"
    /\ size = minMultipartUploadSize - 1
    /\ Cardinality(PostRequests) = 1
    /\ Events("Transferred") # {}

\* C15: when the request that creates the session is answered not-found,
\* the call continues as a single part upload although the payload is not
\* below the threshold: from then on the sink has received exactly one
\* Start, with an empty upload id and before anything else, no Finalizing,
\* and the only further request is the POST of the whole payload; no part
\* and no finalize request is sent.
C15_CreateNotFoundFallsBack ==
    (requests # <<>> /\ requests[1].kind = "create" /\ requests[1].outcome = "ErrNotFound") =>
        /\ size >= minMultipartUploadSize
        /\ uploadId = ""
        /\ pc \in {"single", "posting", "done", "failed"}
        /\ pc # "single" =>
              /\ Cardinality(Events("Start")) = 1
              /\ progress[1] = EvStart("")
        /\ pc = "single" => progress = <<>>
        /\ Events("Finalizing") = {}
        /\ ~AnyPartRequest
        /\ FinishRequests = {}
        /\ \A k \in 2..Len(requests) :
              /\ k = 2
              /\ requests[k].kind = "post"
              /\ requests[k].hash = <<0, size>>
        /\ pc = "done" => Len(requests) = 2

C15_Witness ==
    /\ pc = "done"
    /\ requests[1].kind = "create"
    /\ requests[1].outcome = "ErrNotFound"
    /\ size > minMultipartUploadSize
    /\ Events("Transferred") # {}

\* ------------------------------------------------- claims: the archive cache
Answered == resp.err # "unsent"
Returned == apc = "returned"

\* The response carries an Entity-Id header that parses as an id with a
\* revision, a Content-Sha384 header and a content length.
WellFormed(rsp) ==
    /\ rsp.err = "none"
    /\ rsp.EntityId # ""
    /\ ParseURL(rsp.EntityId).ok
    /\ ParseURL(rsp.EntityId).Revision >= 0
    /\ ~rsp.ContentSha384.empty
    /\ rsp.ContentLength >= 0

\* The header an error of GetArchive names, and whether rsp lacks it.
NamedHeader(err) ==
    IF err \in {"no Entity-Id header found in response",
                "invalid entity id found in response",
                "archive get returned not fully qualified entity id"}
      THEN "Entity-Id"
    ELSE IF err = "no Content-Sha384 header found in response" THEN "Content-Sha384"
    ELSE IF err = "no content length found in response" THEN "Content-Length"
    ELSE "none"
Offending(rsp, header) ==
    \/ /\ header = "Entity-Id"
       /\ \/ rsp.EntityId = ""
          \/ ~ParseURL(rsp.EntityId).ok
          \/ ParseURL(rsp.EntityId).Revision < 0
    \/ header = "Content-Sha384" /\ rsp.ContentSha384.empty
    \/ header = "Content-Length" /\ rsp.ContentLength < 0

\* C16: GetArchive hands out the body only for a response whose Entity-Id
\* header parses as an id with revision >= 0, whose Content-Sha384 header is
\* not empty and whose content length is >= 0, and then returns those
\* values; for every other answer it returns no stream, no id, an empty
\* hash, size 0 and an error, which for a response names a header that is
\* missing or invalid.
C16_BodyOnlyForValidHeaders ==
    Answered =>
        /\ got.r => WellFormed(resp)
        /\ WellFormed(resp) =>
              /\ got.r
              /\ got.err = ""
              /\ got.eid = resp.EntityId
              /\ got.hash = resp.ContentSha384
              /\ got.size = resp.ContentLength
        /\ ~WellFormed(resp) =>
              /\ ~got.r
              /\ got.eid = ""
              /\ got.hash = NoHashText
              /\ got.size = 0
              /\ got.err # ""
              /\ Returned
              /\ ret.status = "error"
              /\ resp.err = "none" => Offending(resp, NamedHeader(got.err))

C16_Witness ==
    /\ Returned
    /\ resp.err = "none"
    /\ resp.EntityId = "cs:utopic/django-42"
    /\ ~resp.ContentSha384.empty
    /\ resp.ContentLength = -1
    /\ got.err = "no content length found in response"

\* C17: when GetArchive fails a header check of a response, the body has
\* been closed once when it returns, and stays so; when it hands the body
\* out, the body is open while archivePath runs and has been closed once
\* when archivePath has returned, whatever the way out.
C17_BodyClosedOnce ==
    /\ bodyClosed <= 1
    /\ (Answered /\ resp.err = "none" /\ ~got.r) => got.closed = 1 /\ bodyClosed = 1
    /\ (Answered /\ resp.err # "none") => bodyClosed = 0
    /\ got.r =>
          /\ got.closed = 0
          /\ bodyClosed = (IF Returned THEN 1 ELSE 0)
          /\ Returned =>
                ret.err \in {"", "cannot make temporary file", "cannot read entity archive",
                             "size mismatch; network corruption?",
                             "hash mismatch; network corruption?",
                             "cannot move the entity archive"}

C17_Witness ==
    /\ Returned
    /\ got.r
    /\ ret.err = "cannot move the entity archive"
    /\ bodyClosed = 1

\* The text of the hash of a file and its size match what the store declared.
Matches(file, g) ==
    /\ file.exists
    /\ Len(file.data) = g.size
    /\ [empty |-> FALSE, digest |-> file.data, upper |-> FALSE] = g.hash

\* The store declares what it declared to the last successful call, and the
\* target has not been touched since.
SameAsPrev ==
    /\ before.prev.valid
    /\ got.r
    /\ got.eid = before.prev.eid
    /\ got.hash = before.prev.hash
    /\ got.size = before.prev.size

\* C18: a call that is told the id, hash and size the last successful call
\* was told, with the target file untouched in between, goes no further
\* than the look at the cache: it returns the path that call returned,
\* creates no temp file and does not write or replace the target, whose
\* hash and size are the declared ones.
C18_SecondFetchReusesFile ==
    SameAsPrev =>
        /\ apc \in {"cached", "returned"}
        /\ files.target = before.target
        /\ targetWrites = 0
        /\ ~files.temp.exists
        /\ leftover = before.leftover
        /\ Matches(files.target, got)
        /\ Returned =>
              /\ ret.status = "ok"
              /\ ret.path = before.prev.path

C18_Witness ==
    /\ Returned
    /\ SameAsPrev
    /\ calls > 1
    /\ ret.status = "ok"
    /\ Len(files.target.data) > 0

\* C19: after a successful call the target file has the hash and size the
\* store declared; when the file the call found there had another size or
\* hash, the call has replaced it, once.
C19_StaleFileReplaced ==
    (Returned /\ ret.status = "ok") =>
        /\ Matches(files.target, got)
        /\ (before.target.exists /\ ~Matches(before.target, got)) =>
              /\ files.target # before.target
              /\ targetWrites = 1
              /\ files.target.data = resp.Body

C19_Witness ==
    /\ Returned
    /\ ret.status = "ok"
    /\ calls > 1
    /\ before.target.exists
    /\ Len(before.target.data) = got.size
    /\ ~Matches(before.target, got)

IntegrityErrors ==
    {"cannot read entity archive", "size mismatch; network corruption?",
     "hash mismatch; network corruption?"}

\* C20: a call that returns a read, size or hash error leaves the target as
\* it found it, absent or with its content; at every moment of a call the
\* target is as the call found it or holds the whole body with the declared
\* size and hash; only a body that was read without error and has the
\* declared size and hash is moved to the target.
C20_FailedDownloadKeepsTarget ==
    /\ (Returned /\ ret.err \in IntegrityErrors) =>
          /\ ret.status = "error"
          /\ ret.path = <<>>
          /\ files.target = before.target
          /\ targetWrites = 0
    /\ apc \notin {"none", "idle"} =>
          \/ files.target = before.target
          \/ /\ Matches(files.target, got)
             /\ files.target.data = resp.Body
             /\ ~resp.readError
    /\ apc = "replacing" =>
          /\ Matches(files.temp, got)
          /\ files.temp.data = resp.Body
          /\ ~resp.readError
    /\ (Returned /\ got.r /\ ret.status = "ok" /\ targetWrites > 0) => ~resp.readError

C20_Witness ==
    /\ Returned
    /\ ret.err = "hash mismatch; network corruption?"
    /\ before.target.exists
    /\ Len(resp.Body) > 0
    /\ files.target.data # resp.Body

VerificationErrors ==
    {"size mismatch; network corruption?", "hash mismatch; network corruption?"}

\* C21: after a call that returns a size or hash mismatch of the downloaded
\* body, the cache directory holds the files it held when the call started:
\* the target as it was and no temp file of the call.
C21_AsStated ==
    (Returned /\ ret.err \in VerificationErrors) =>
        /\ files.target = before.target
        /\ ~files.temp.exists
        /\ leftover = before.leftover

\* -------------------------------------------------- claims: concurrent calls
BothReturned == \A p \in Procs : call[p].pc = "returned"

\* The file holds the whole archive of the store.
HoldsStore(file) == file.exists /\ file.data = store

\* Errors a call meets when the transport or the file system fails it.
EnvironmentErrors ==
    {"cannot create the cache directory", "cannot retrieve: charm not found",
     "cannot retrieve charm", "cannot make temporary file", "cannot read entity archive",
     "cannot move the entity archive"}

\* C22: in every interleaving of two archivePath calls for one id against a
\* store holding one archive, each call writes only to its own temp file; the
\* target is always as the calls found it (absent or with its content) or
\* holds the whole archive with the declared hash and size; no call fails
\* for another reason than a failure of the transport or the file system;
\* and once both have returned, the calls that succeeded returned the same
\* path and, if any did, the target holds the archive of the store, with the
\* hash and size each call was told.
C22_ConcurrentCallsConsistent ==
    /\ \A p \in Procs : call[p].wrote \subseteq {p}
    /\ \/ cacheDir.target = cacheDir.found
       \/ HoldsStore(cacheDir.target)
    /\ \A p \in Procs :
          call[p].pc = "returned" =>
              \/ call[p].ret.status = "ok"
              \/ call[p].ret.status = "error" /\ call[p].ret.err \in EnvironmentErrors
    /\ BothReturned =>
          /\ \A p, q \in Procs :
                (call[p].ret.status = "ok" /\ call[q].ret.status = "ok") =>
                    call[p].ret.path = call[q].ret.path
          /\ \A p \in Procs :
                call[p].ret.status = "ok" =>
                    /\ HoldsStore(cacheDir.target)
                    /\ Matches(cacheDir.target, call[p].got)

\* Both calls found a stale file, both downloaded, both replaced the target.
C22_Witness ==
    /\ BothReturned
    /\ \A p \in Procs : call[p].ret.status = "ok" /\ call[p].wrote = {p}
    /\ cacheDir.found.exists
    /\ cacheDir.found.data # store
    /\ Len(store) > 0

\* C23 as stated: every call that has returned has sent exactly one archive
\* GET request.
C23_AsStated == Returned => gets = 1

\* C23: a call sends at most one archive GET request; it has sent one when
\* it looks at the cache, downloads, or returns anything but the failure to
\* create the cache directory, also when it reuses the cached file and after
\* a size mismatch, a hash mismatch or a rejected header; it has sent none
\* when it returns the failure to create the cache directory.
C23_OneGetPerCall ==
    /\ gets <= 1
    /\ apc \in {"cached", "temp", "copying", "checking", "replacing"} => gets = 1
    /\ Returned =>
          IF ret.err = "cannot create the cache directory" THEN gets = 0 ELSE gets = 1

\* The second call is told a size the body does not have.
C23_Witness ==
    /\ Returned
    /\ calls = 2
    /\ before.prev.valid
    /\ ret.err = "size mismatch; network corruption?"
    /\ gets = 1

\* The digest of the content is the declared one, whatever the case of the
\* hex letters of the declared text.
SameDigest(c, hashText) == ~hashText.empty /\ Sum384(c) = hashText.digest

\* C24: the digests are compared without regard to the case of the hex
\* letters: a hash mismatch is returned only for a body whose digest differs
\* from the declared one, and a cached file with the declared size and
\* digest is reused.
C24_AsStated ==
    /\ (Returned /\ ret.err = "hash mismatch; network corruption?") =>
          ~SameDigest(resp.Body, got.hash)
    /\ (Returned /\ got.r /\ before.target.exists
            /\ Len(before.target.data) = got.size
            /\ SameDigest(before.target.data, got.hash)) =>
          /\ ret.status = "ok"
          /\ targetWrites = 0

\* ------------------------------------------------------- claims: the client
\* The methods that take a path and hand it to Do.
PathMethods == {"Do", "Get", "Put", "PutWithResponse", "DoWithResponse"}

BeginsWithSlash(path) == Len(path) > 0 /\ path[1] = "/"

\* C25: a call of Do, Get, Put, PutWithResponse or DoWithResponse with a
\* path that does not begin with "/" returns an error and hands no request
\* to the transport; the error is Do's "path ... is not absolute" whenever Do
\* is reached, that is unless the value of a Put or DoWithResponse cannot be
\* marshalled; and every request that is sent has a path beginning with "/".
C25_RelativePathRejected ==
    /\ (lastCall.op \in PathMethods /\ ~BeginsWithSlash(lastCall.path)) =>
          /\ sent = <<>>
          /\ lastCall.err # ""
          /\ ~lastCall.open
          /\ lastCall.marshals => lastCall.err = "path is not absolute"
    /\ \A k \in 1..Len(sent) : BeginsWithSlash(sent[k].path)

C25_Witness ==
    /\ lastCall.op = "Put"
    /\ lastCall.path = <<"wordpress">>
    /\ lastCall.marshals
    /\ lastCall.err = "path is not absolute"
    /\ sent = <<>>
    /\ Len(clients) > 1

\* The path of resource resname of the charm, without a revision.
ResourcePath == <<"/", "~who/trusty/mysql-0", "/", "resource", "/", "resname">>

\* C26: GetResource with a negative revision asks for the resource path
\* without a revision segment and returns what the store answers, not an
\* error of its own; with a revision >= 0 it asks for the path with that
\* revision as its last segment.
C26_AsStated ==
    lastCall.op = "GetResource" =>
        /\ Len(sent) = 1
        /\ sent[1].method = "GET"
        /\ sent[1].path = IF lastCall.revision < 0
                            THEN ResourcePath
                            ELSE ResourcePath \o <<"/", Itoa(lastCall.revision)>>
        /\ lastCall.revision < 0 =>
              lastCall.err # "revision must be a non-negative integer"

\* The query a request carries for a client made with the channel.
ChannelQuery(channel) == IF channel = "" THEN {} ELSE {<<"channel", channel>>}

\* C27: WithChannel makes a new client and leaves every existing one as it
\* is: a client keeps the channel it was made with, the first one none,
\* whatever WithChannel calls follow, and every request carries channel=<c>
\* for the channel c the client it is made through was made with, and no
\* channel when that client was made with none.
C27_WithChannelLeavesReceiver ==
    /\ Len(clients) = Len(made)
    /\ made[1] = ""
    /\ \A i \in 1..Len(clients) :
          /\ clients[i].channel = made[i]
          /\ clients[i].User = clients[1].User
    /\ \A k \in 1..Len(sent) : sent[k].query = ChannelQuery(made[sent[k].client])
    /\ lastCall.op = "WithChannel" => Len(clients) > 1

\* A request through the first client after an edge client was made from it.
C27_Witness ==
    /\ Len(clients) = 2
    /\ made[2] = "edge"
    /\ Len(sent) = 1
    /\ sent[1].client = 1
    /\ sent[1].query = {}
    /\ lastCall.err = ""

\* ------------------------------------------------------ claims: the monitor
\* The SetStatus calls made at a point of the loop.
Deliveries(at) ==
    {k \in 1..Len(observed.delivered) : observed.delivered[k].at = at}

Exited == monitor.pc = "exited"

\* C28: SetStatus is called only by the loop of run: at most once when it
\* starts, at most once for each update interval that has elapsed, at most
\* once when the monitor is killed, never by Update; each call carries the
\* total size, and no two calls in a row carry the same status.
C28_SetStatusOnlyFromLoop ==
    /\ \A k \in 1..Len(observed.delivered) :
          /\ observed.delivered[k].at \in {"start", "interval", "kill"}
          /\ observed.delivered[k].status.Total = monitor.Size
          /\ observed.delivered[k].status.Current \in 0..MaxCurrent
    /\ Cardinality(Deliveries("start")) <= 1
    /\ Cardinality(Deliveries("interval")) <= observed.elapsed
    /\ Cardinality(Deliveries("kill")) <= (IF observed.killed THEN 1 ELSE 0)
    /\ \A k \in 1..(Len(observed.delivered) - 1) :
          observed.delivered[k].status # observed.delivered[k + 1].status
    /\ Len(observed.delivered) <= observed.updates + 1

\* The run of TestMonitor: a status at the start, an interval with nothing
\* new, an update delivered after the next interval, one delivered at Kill.
C28_Witness ==
    /\ Exited
    /\ Len(observed.delivered) = 3
    /\ observed.delivered[1].at = "start"
    /\ observed.delivered[2].at = "interval"
    /\ observed.delivered[3].at = "kill"
    /\ observed.elapsed = 2
    /\ observed.updates = 2

\* The last status the setter was given; the zero Status when it was given
\* none, which is what m.currentStatus holds then.
LastDelivered ==
    IF observed.delivered = <<>>
      THEN [Current |-> 0, Total |-> 0]
      ELSE observed.delivered[Len(observed.delivered)].status

\* The status made of the value m.current held when Kill was called.
StatusAtKill == [Current |-> observed.killCurrent, Total |-> monitor.Size]

\* C29 as stated: when the monitor has exited, the value set by the last
\* Update before Kill has been given to the setter.
C29_AsStated ==
    (Exited /\ observed.updates - observed.updatesAfterKill > 0) =>
        \E k \in 1..Len(observed.delivered) : observed.delivered[k].status = StatusAtKill

\* When the monitor has exited it was killed, and the last status the setter
\* was given (the zero Status if none) carries the total size and the value
\* m.current held at Kill or one set by an Update after Kill.
FinalStatusDelivered ==
    Exited =>
        /\ observed.killed
        /\ monitor.currentStatus = LastDelivered
        /\ LastDelivered \in
              {StatusAtKill} \cup
                  {[Current |-> v, Total |-> monitor.Size] : v \in observed.setAfterKill}
        /\ Cardinality(Deliveries("interval")) <= observed.elapsed

\* C29: a killed monitor reads the current value once more and gives it to
\* the setter unless the status equals the last one given (the zero Status
\* if none was given): when it has exited and no Update followed Kill, the
\* last status given carries the value of the last Update before Kill; an
\* Update after Kill may take its place.  No interval has to elapse for this,
\* and when the goroutine is scheduled and the setter returns, a killed
\* monitor exits.
C29_KilledMonitorDeliversAndExits ==
    /\ []FinalStatusDelivered
    /\ (monitor.dying ~> Exited)

\* An update that no interval delivered is delivered at Kill.
C29_Witness ==
    /\ Exited
    /\ observed.elapsed = 0
    /\ observed.updates = 1
    /\ observed.updatesAfterKill = 0
    /\ observed.killCurrent > 0
    /\ Len(observed.delivered) = 2
    /\ observed.delivered[2] = [status |-> StatusAtKill, at |-> "kill"]

\* C30: once Wait has returned, run has returned and SetStatus is not called
\* again: the setter has been given exactly the statuses it had been given
\* when Wait returned, whatever Update calls and clock advances follow.
C30_NoStatusAfterWait ==
    monitor.waited =>
        /\ Exited
        /\ observed.killed
        /\ Len(observed.delivered) = observed.deliveredAtWait
        /\ monitor.currentStatus = LastDelivered

\* After Wait an Update set a value the setter never saw and the clock
\* advanced.
C30_Witness ==
    /\ monitor.waited
    /\ observed.updatesAfterWait > 0
    /\ observed.elapsedAfterWait > 0
    /\ monitor.current # monitor.currentStatus.Current
    /\ Len(observed.delivered) > 0


\* ---------------------------------------------------------------- C31, C32
\* The stability order of the channel model: stable before candidate before
\* beta before edge.
StabilityOrder == <<StableChannel, CandidateChannel, BetaChannel, EdgeChannel>>

Named(list) == \A i \in 1..Len(list) : \E k \in 1..4 : StabilityOrder[k] = list[i]

MostStable(list) ==
    LET k == CHOOSE k \in 1..4 :
                 /\ \E i \in 1..Len(list) : list[i] = StabilityOrder[k]
                 /\ \A h \in 1..(k - 1) : \A i \in 1..Len(list) : list[i] # StabilityOrder[h]
    IN StabilityOrder[k]

Resolved == resolution.pc = "resolved" /\ resolution.err = ""

PreferredOf == IF resolution.preferred # NoChannel THEN resolution.preferred
               ELSE resolution.client

\* C31 as the claim states it: a resolution that succeeds returns the preferred
\* channel (the argument, or else the client's channel) when one is set; with
\* none set it returns "unpublished" for an entity published to no channel and
\* otherwise the most stable of the channels the entity is published to.
C31_AsStated ==
    Resolved =>
        IF PreferredOf # NoChannel THEN resolution.channel = PreferredOf
        ELSE IF resolution.published = <<>>
        THEN resolution.channel = UnpublishedChannel
        ELSE Named(resolution.published) =>
                 resolution.channel = MostStable(resolution.published)

LegacyChannels == {StableChannel, DevelopmentChannel, UnpublishedChannel}

LegacyLevel(c) ==
    CASE c = StableChannel -> 1 [] c = DevelopmentChannel -> 2 [] OTHER -> 3

AllLegacy(list) == \A i \in 1..Len(list) : list[i] \in LegacyChannels

Occurrences(list, c) == Cardinality({i \in 1..Len(list) : list[i] = c})

SameChannels(a, b) ==
    /\ Len(a) = Len(b)
    /\ \A c \in PublishedChannels : Occurrences(a, c) = Occurrences(b, c)

InLegacyOrder(list) ==
    \A i \in 1..Len(list), j \in 1..Len(list) :
        i < j => LegacyLevel(list[i]) <= LegacyLevel(list[j])

MadeWith(i) ==
    [stats |-> ~repository.repos[i].testMode, header |-> repository.repos[i].attrs]

\* C39 as the claim states it: WithTestMode and WithJujuAttrs leave the
\* receiver's behaviour unchanged, so every archive request made through a
\* repository counts statistics unless that repository was made by
\* WithTestMode and carries the Juju-Metadata values that repository was made
\* with, whatever repositories were derived from it since.
C39_AsStated ==
    \A k \in 1..Len(repository.requests) :
        repository.requests[k].req = MadeWith(repository.requests[k].repo)


\* ---------------------------------------------------------------------- C33
CeilDiv(a, b) == (a + b - 1) \div b

\* The session has no recorded part and limits for which the preferred part
\* size is defined and allowed.
FreshWithin ==
    /\ Multipart
    /\ session.Parts = <<>>
    /\ session.MaxParts > 0
    /\ Max2(CeilDiv(size, session.MaxParts), session.MinPartSize) <= session.MaxPartSize

PreferredOfSession == Max2(CeilDiv(size, session.MaxParts), session.MinPartSize)

\* C33: in a multipart upload whose session records no part, with preferred =
\* max(ceil(size / MaxParts), MinPartSize) <= MaxPartSize, the k-th part the
\* loop comes to is uploaded and covers [k*preferred, min((k+1)*preferred,
\* size)), a non-empty range, every request of part k carries that range, and
\* an upload that reaches finalization has handled ceil(size / preferred)
\* parts.
C33_FreshPartsOfPreferredSize ==
    FreshWithin =>
        /\ \A i \in Handled :
              /\ ranges[i + 1].uploaded
              /\ ranges[i + 1].p0 = i * PreferredOfSession
              /\ ranges[i + 1].p1 = Min2((i + 1) * PreferredOfSession, size)
              /\ ranges[i + 1].p0 < ranges[i + 1].p1
        /\ \A k \in 1..Len(requests) :
              requests[k].kind = "part" =>
                  /\ requests[k].part \in Handled
                  /\ requests[k].p0 = requests[k].part * PreferredOfSession
                  /\ requests[k].p1 = Min2((requests[k].part + 1) * PreferredOfSession, size)
        /\ ReachedFinalization =>
              Len(ranges) = (IF size = 0 THEN 0 ELSE CeilDiv(size, PreferredOfSession))

\* A payload of three bytes went up in parts of two bytes and one byte.
C33_Witness ==
    /\ pc = "done"
    /\ FreshWithin
    /\ uploadId = ""
    /\ size = 3
    /\ PreferredOfSession = 2
    /\ OkRequests(0) # {} /\ OkRequests(1) # {}
    /\ requests[CHOOSE k \in OkRequests(1) : TRUE].p0 = 2
    /\ requests[CHOOSE k \in OkRequests(1) : TRUE].p1 = 3


\* ---------------------------------------------------------------------- C34
\* The call has entered uploadSinglePartResource and called Start there.
OnSinglePath ==
    \/ pc = "posting"
    \/ SingleShot
    \/ pc = "failed" /\ result.msg = "resource file changed underfoot"
    \/ pc = "failed" /\ result.msg = "cannot read resource" /\ result.detail = -1

UploadedParts == {i \in Handled : ranges[i + 1].uploaded}

Submitted(f) == requests[f].hash

\* C35: every attempt for a part carries the index of the part, the offset
\* of the range chosen for it and the hash of that range, taken before the
\* first attempt, so all attempts for one part agree; the parts list submitted
\* at finalization records for the index of every uploaded part that hash,
\* marked complete.
C35_OneHashPerPart ==
    /\ \A k \in 1..Len(requests) :
          requests[k].kind = "part" =>
              /\ requests[k].part \in UploadedParts
              /\ requests[k].p0 = ranges[requests[k].part + 1].p0
              /\ requests[k].p1 = ranges[requests[k].part + 1].p1
              /\ requests[k].hash = <<requests[k].p0, requests[k].p1>>
    /\ \A f \in FinishRequests : \A i \in UploadedParts :
          /\ OkRequests(i) # {}
          /\ i < Len(Submitted(f))
          /\ Submitted(f)[i + 1].Complete
          /\ \A k \in PartRequests(i) : Submitted(f)[i + 1].Hash = requests[k].hash

\* The second part of an upload went through after failed attempts and the
\* parts list was submitted.
C35_Witness ==
    /\ FinishRequests # {}
    /\ \E i \in UploadedParts :
          /\ i > 0
          /\ Cardinality(SoftRequests(i)) >= 2
          /\ OkRequests(i) # {}


\* ---------------------------------------------------------------------- C37
\* C37 as stated: every part request has an index below MaxParts and a byte
\* range of at least one byte whose length lies in [MinPartSize, MaxPartSize],
\* except that the part ending at the end of the payload may be shorter than
\* MinPartSize.
C37_AsStated ==
    \A k \in 1..Len(requests) :
        requests[k].kind = "part" =>
            /\ requests[k].part < session.MaxParts
            /\ requests[k].p1 - requests[k].p0 > 0
            /\ requests[k].p1 - requests[k].p0 <= session.MaxPartSize
            /\ \/ requests[k].p1 - requests[k].p0 >= session.MinPartSize
               \/ requests[k].p1 = size


\* ---------------------------------------------------------------------- C38
\* C38 as stated: the parts list of a finalize request has exactly one entry
\* for every index from 0 to the last the loop came to, each entry marked
\* complete and with a hash.
C38_AsStated ==
    \A f \in FinishRequests :
        /\ Len(Submitted(f)) = Len(ranges)
        /\ \A j \in 1..Len(Submitted(f)) :
              Submitted(f)[j].Complete /\ Submitted(f)[j].Hash # NoHash

\* C38 as amended: the parts list of a finalize request has, for every index
\* from 0 to the last the loop came to, one entry at the position of that index,
\* marked complete and with a hash: the entry the session recorded for a part
\* it held complete, the hash of the successful request otherwise; a part
\* whose index is at or beyond the length of the recorded list was appended
\* at the position of its index; entries the session recorded beyond the last
\* index the loop came to are submitted as recorded.
C38_SubmittedPartsList ==
    \A f \in FinishRequests :
        /\ Len(Submitted(f)) = Max2(Len(ranges), Len(session.Parts))
        /\ \A i \in Handled :
              /\ Submitted(f)[i + 1].Complete
              /\ Submitted(f)[i + 1].Hash # NoHash
              /\ ~ranges[i + 1].uploaded => Submitted(f)[i + 1] = session.Parts[i + 1]
              /\ ranges[i + 1].uploaded =>
                    /\ OkRequests(i) # {}
                    /\ Submitted(f)[i + 1].Hash = <<ranges[i + 1].p0, ranges[i + 1].p1>>
        /\ \A j \in Len(ranges)..(Len(session.Parts) - 1) :
              Submitted(f)[j + 1] = session.Parts[j + 1]

\* A resumed upload replaced a recorded entry, kept another and appended a
\* part beyond the recorded list before it submitted the list.
C38_Witness ==
    /\ FinishRequests # {}
    /\ Len(session.Parts) = 2
    /\ Len(ranges) = 3
    /\ ranges[1].uploaded /\ ~ranges[2].uploaded /\ ranges[3].uploaded


\* ---------------------------------------------------------------------- C40
\* C40 as stated: whatever limits and recorded parts the session carries, the
\* call never ends in a runtime fault: it is running, or it has returned a
\* revision or an error.
C40_AsStated ==
    /\ pc # "panicked"
    /\ result.status \in {"running", "ok", "error"}


====
